---- MODULE Spec2Model ----
(***************************************************************************)
(* FitStore inventory valuation: FIFO cost layers, weighted average cost,  *)
(* logistics allocation, the inventory ledger, sale fulfilment and the     *)
(* reversal handlers (backend/supplements: models.py, signals.py,          *)
(* views.py, serializers.py).                                              *)
(*                                                                         *)
(* Money is held in cents (DecimalField(decimal_places=2)), the exchange   *)
(* rate in 1/10000 (decimal_places=4).  A value is rounded to its field's  *)
(* scale when it is stored; Python Decimal intermediates are exact.        *)
(* Quantities are whole units.                                             *)
(***************************************************************************)
EXTENDS Integers, Sequences, FiniteSets, TLC

VARIABLES
    rate,            \* SystemSettings.usd_to_gtq_rate, in 1/10000
    product,         \* Product rows: current_stock, average_cost, last_purchase_cost
    purchase,        \* Purchase rows: status, real_shipping, real_taxes
    purchase_items,  \* PurchaseItem rows of each purchase (fixed once created)
    cost_layers,     \* CostLayer rows, in insertion order
    sale_items,      \* SaleItem rows, in insertion order
    ledger,          \* InventoryTransaction rows, in insertion order
    next_id,         \* auto-increment primary keys: layer, sale_item
    nops,            \* number of requests accepted so far
    last,            \* the request served last: its kind, arguments and outcome
    procs,           \* the worker processes: the request each one is serving
    locks            \* the row locks held by open transactions

vars == <<rate, product, purchase, purchase_items, cost_layers, sale_items,
          ledger, next_id, nops, last, procs, locks>>

----------------------------------------------------------------------------
(* Bounds of the model and value sets of the inputs.                       *)

MaxOps == 3                 \* requests served one at a time
MaxConcOps == 2             \* requests served by the concurrent workers

Products == {1, 2}          \* ordered as by product_name
PurchaseIds == {1, 2}
SaleId == 1                 \* the Sale header every modelled line belongs to
\* quantities a POST /sale-items/ may carry: SaleItemSerializer declares
\* quantity itself, as a DecimalField without a minimum
SaleQuantities == {-1, 0, 1, 3, 4}
DefaultRate == 77500        \* SystemSettings.usd_to_gtq_rate default, 7.7500
Rates == {DefaultRate, 20000}
None == -1                  \* SQL NULL / Python None

\* the unit_cost (GTQ cents) a POST /sale-items/ may carry: none, or 50.00
SubmittedCosts == {0, 5000}

\* the (quantity, unit_cost) pairs a POST /sale-items/ may carry: every
\* quantity without a unit_cost, and one unit with each unit_cost
SaleInputs ==
    {<<q, 0>> : q \in SaleQuantities} \cup {<<1, uc>> : uc \in SubmittedCosts}

\* quantities a PUT /sale-items/{id}/ may carry
EditQuantities == {2, 4}

\* the quantities of the requests served concurrently
ConcSaleQuantities == {-1, 3, 4}

\* (real_shipping, real_taxes) pairs a purchase update may carry
RealCostInputs == {<<None, 1500>>, <<1500, 2500>>, <<0, 0>>}

\* Purchase.STATUS_CHOICES: the status a purchase update may change to
\* ('pending' is the status a purchase is created with)
StatusInputs == {"received", "cancelled"}

\* The (status, real_shipping, real_taxes) a purchase update carries for a
\* stored row: new real costs with the stored status, a new status with the
\* stored real costs, or the status 'received' together with real costs.
PurchaseInputs(row) ==
    {<<row.status, rc[1], rc[2]>> : rc \in RealCostInputs}
        \cup {<<st, row.real_shipping, row.real_taxes>> : st \in StatusInputs}
        \cup {<<"received", 1500, 2500>>}

\* A PurchaseItem row, with the product_name of its product (the key its
\* Meta.ordering sorts by): product 1 is named before product 2 unless the
\* catalogue says otherwise.
Line(id, p, q, uc, d) ==
    [id |-> id, product |-> p, product_name |-> p, quantity |-> q,
     unit_cost |-> uc, discount |-> d]

\* The purchases entered before the run starts (pending, with their lines).
OneLinePerProduct ==
    [pu \in PurchaseIds |->
        IF pu = 1 THEN <<Line(1, 1, 2, 500, 0), Line(2, 2, 3, 600, 300)>>
                  ELSE <<Line(3, 1, 3, 600, 0)>>]

TwoLinesPerProduct ==
    [pu \in PurchaseIds |->
        IF pu = 1 THEN <<Line(1, 1, 2, 500, 0), Line(2, 1, 3, 600, 0)>>
                  ELSE <<Line(3, 1, 3, 600, 1800), Line(4, 2, 3, 0, 0)>>]

Catalogues == {OneLinePerProduct, TwoLinesPerProduct}

\* Product.product_name is not unique: both products carry the same name,
\* and each purchase has a line of each, entered in opposite orders.
SameNamedProducts ==
    [pu \in PurchaseIds |->
        IF pu = 1
        THEN <<[Line(1, 1, 2, 500, 0) EXCEPT !.product_name = 1],
               [Line(2, 2, 3, 600, 0) EXCEPT !.product_name = 1]>>
        ELSE <<[Line(3, 2, 3, 600, 0) EXCEPT !.product_name = 1],
               [Line(4, 1, 3, 600, 0) EXCEPT !.product_name = 1]>>]

\* The Product table before the run starts: import_products.py and
\* POST /products/ create products with a current_stock (and, by the API, an
\* average_cost) and no cost layer.
ProductRow(current_stock, average_cost) ==
    [current_stock |-> current_stock, average_cost |-> average_cost,
     last_purchase_cost |-> 0]

NoOpeningStock == [p \in Products |-> ProductRow(0, 0)]

OpeningStock ==
    [p \in Products |-> IF p = 1 THEN ProductRow(1, 258) ELSE ProductRow(0, 0)]

\* The products and purchases the requests served one at a time start on.
InitialData ==
    { [product |-> OpeningStock, purchase_items |-> OneLinePerProduct],
      [product |-> NoOpeningStock, purchase_items |-> TwoLinesPerProduct] }

----------------------------------------------------------------------------
(* Decimal arithmetic.                                                     *)

RateScale == 10000

Min(a, b) == IF a < b THEN a ELSE b
Abs(a) == IF a < 0 THEN -a ELSE a

\* n/d rounded to the nearest integer, ties to even (decimal.ROUND_HALF_EVEN,
\* the rounding of the default context a DecimalField is quantized with).
RoundDiv(n, d) ==
    LET a == IF d < 0 THEN -n ELSE n
        b == IF d < 0 THEN -d ELSE d
        q == a \div b
        r == a % b
    IN  IF 2 * r < b THEN q
        ELSE IF 2 * r > b THEN q + 1
        ELSE IF q % 2 = 0 THEN q ELSE q + 1

----------------------------------------------------------------------------
(* The database as one value: the operations below are functions from a    *)
(* database (and the request's inputs) to a database and an outcome.       *)

DB ==
    [rate |-> rate, product |-> product, purchase |-> purchase,
     cost_layers |-> cost_layers, sale_items |-> sale_items,
     ledger |-> ledger, next_id |-> next_id]

Store(d) ==
    /\ rate' = d.rate
    /\ product' = d.product
    /\ purchase' = d.purchase
    /\ cost_layers' = d.cost_layers
    /\ sale_items' = d.sale_items
    /\ ledger' = d.ledger
    /\ next_id' = d.next_id

RemoveAt(s, i) == SubSeq(s, 1, i - 1) \o SubSeq(s, i + 1, Len(s))

\* Sum of f[i] over i in 1..n.
RECURSIVE SumTo(_, _)
SumTo(f, n) == IF n = 0 THEN 0 ELSE f[n] + SumTo(f, n - 1)

Txn(p, type, change, after, ref) ==
    [product |-> p, transaction_type |-> type, quantity_change |-> change,
     quantity_after |-> after, reference_id |-> ref]

----------------------------------------------------------------------------
(* Product                                                                 *)

\* Product.average_cost_gtq: average_cost * rate, an unrounded Decimal; here
\* its numerator over RateScale.
AverageCostGtq(d, p) == d.product[p].average_cost * d.rate

LayersOf(ls, p) == SelectSeq(ls, LAMBDA l : l.product = p)

\* Product.update_average_cost: value and quantity summed over all layers of
\* the product (USD unit_cost), then save(update_fields=['average_cost']).
UpdateAverageCost(d, p) ==
    LET ls == LayersOf(d.cost_layers, p)
        total_value ==
            SumTo([i \in 1..Len(ls) |-> ls[i].quantity_remaining * ls[i].unit_cost],
                  Len(ls))
        total_qty ==
            SumTo([i \in 1..Len(ls) |-> ls[i].quantity_remaining], Len(ls))
        avg == IF total_qty > 0 THEN RoundDiv(total_value, total_qty) ELSE 0
    IN  [d EXCEPT !.product[p].average_cost = avg]

----------------------------------------------------------------------------
(* FIFO costing and consumption (signals.py)                               *)

\* .order_by('created_at'): oldest first.
RECURSIVE OrderByCreatedAt(_)
OrderByCreatedAt(s) ==
    IF s = <<>> THEN <<>>
    ELSE LET i == CHOOSE i \in 1..Len(s) :
                      \A j \in 1..Len(s) :
                          \/ s[i].created_at < s[j].created_at
                          \/ (s[i].created_at = s[j].created_at /\ i <= j)
         IN  <<s[i]>> \o OrderByCreatedAt(RemoveAt(s, i))

\* FifoLayers without its ordering: the rows as the reversed table yields them.
FifoLayers_Unordered(ls, p) ==
    LET sel == SelectSeq(ls, LAMBDA l : l.product = p /\ l.quantity_remaining > 0)
    IN  [i \in 1..Len(sel) |-> sel[Len(sel) + 1 - i]]

\* CostLayer.objects.filter(product=product, quantity_remaining__gt=0)
\*     .order_by('created_at')
FifoLayers(ls, p) ==
    OrderByCreatedAt(
        SelectSeq(ls, LAMBDA l : l.product = p /\ l.quantity_remaining > 0))

\* QuantityFromLayer without the min: the whole need is taken from the layer.
QuantityFromLayer_NoMin(remaining_quantity, layer) == remaining_quantity

\* The amount the FIFO loops take from a layer.
QuantityFromLayer(remaining_quantity, layer) ==
    Min(remaining_quantity, layer.quantity_remaining)

\* The loop of calculate_fifo_cost: the GTQ total and what is left to cover.
RECURSIVE FifoCostLoop(_, _, _)
FifoCostLoop(ls, remaining_quantity, total_cost) ==
    IF ls = <<>> \/ remaining_quantity <= 0
    THEN [total_cost |-> total_cost, remaining_quantity |-> remaining_quantity]
    ELSE LET qfl == QuantityFromLayer(remaining_quantity, Head(ls))
         IN  FifoCostLoop(Tail(ls), remaining_quantity - qfl,
                          total_cost + qfl * Head(ls).unit_cost_gtq)

\* FallbackCost with the uncovered quantity costed at nothing.
FallbackCost_Zero(d, p, remaining_quantity) == 0

\* What calculate_fifo_cost adds for the quantity the layers do not cover:
\* remaining_quantity * product.average_cost_gtq (numerator over RateScale).
FallbackCost(d, p, remaining_quantity) ==
    IF remaining_quantity > 0 THEN remaining_quantity * AverageCostGtq(d, p) ELSE 0

\* The FIFO total of calculate_fifo_cost for a new line (numerator over
\* RateScale), when the product has a layer with quantity_remaining > 0.
FifoTotalCost(d, p, quantity_needed) ==
    LET r == FifoCostLoop(FifoLayers(d.cost_layers, p), quantity_needed, 0)
    IN  r.total_cost * RateScale + FallbackCost(d, p, r.remaining_quantity)

\* pre_save of a new SaleItem raises decimal.InvalidOperation: total_cost /
\* quantity_needed is 0 / 0 when a layer is available and the quantity is 0.
FifoCostRaises(d, p, quantity_needed, unit_cost) ==
    /\ ~(unit_cost > 0)
    /\ FifoLayers(d.cost_layers, p) # <<>>
    /\ quantity_needed = 0

\* pre_save of a new SaleItem: the unit_cost the row is stored with.
CalculateFifoCost(d, p, quantity_needed, unit_cost) ==
    IF unit_cost > 0 THEN unit_cost
    ELSE IF FifoLayers(d.cost_layers, p) = <<>>
         THEN RoundDiv(AverageCostGtq(d, p), RateScale)
         ELSE RoundDiv(FifoTotalCost(d, p, quantity_needed),
                       quantity_needed * RateScale)

\* The loop of update_inventory_and_cost_layers: each layer visited and the
\* quantity taken from it.
RECURSIVE ConsumePlan(_, _)
ConsumePlan(ls, remaining_quantity) ==
    IF ls = <<>> \/ remaining_quantity <= 0 THEN <<>>
    ELSE LET qfl == QuantityFromLayer(remaining_quantity, Head(ls))
         IN  <<[id |-> Head(ls).id, quantity |-> qfl]>>
             \o ConsumePlan(Tail(ls), remaining_quantity - qfl)

\* ConsumeLayers that clears the allocation of every layer it takes from.
ConsumeLayers_ResetsAllocation(ls, p, quantity_sold) ==
    LET plan == ConsumePlan(FifoLayers(ls, p), quantity_sold)
        taken(id) ==
            IF \E k \in 1..Len(plan) : plan[k].id = id
            THEN plan[CHOOSE k \in 1..Len(plan) : plan[k].id = id].quantity
            ELSE 0
    IN  [i \in 1..Len(ls) |->
            IF taken(ls[i].id) = 0 THEN ls[i]
            ELSE [ls[i] EXCEPT !.quantity_remaining = @ - taken(ls[i].id),
                               !.logistics_allocated = FALSE]]

\* layer.quantity_remaining -= quantity_from_layer; layer.save()
ConsumeLayers(ls, p, quantity_sold) ==
    LET plan == ConsumePlan(FifoLayers(ls, p), quantity_sold)
        taken(id) ==
            IF \E k \in 1..Len(plan) : plan[k].id = id
            THEN plan[CHOOSE k \in 1..Len(plan) : plan[k].id = id].quantity
            ELSE 0
    IN  [i \in 1..Len(ls) |->
            [ls[i] EXCEPT !.quantity_remaining = @ - taken(ls[i].id)]]

\* The CHECK constraint without its condition.
StockNonNegative_Unchecked(current_stock) == TRUE

\* Product.Meta.constraints: CheckConstraint(current_stock__gte=0), which the
\* database evaluates on every write of a Product row.
StockNonNegative(current_stock) == current_stock >= 0

\* The answer's detail when nothing is refused.
NoError == [message |-> "", available |-> 0, requested |-> 0]

\* InsufficientStock that does not say what is available and requested.
InsufficientStock_NoValues(available, requested) ==
    [message |-> "Insufficient stock", available |-> 0, requested |-> 0]

\* f'Insufficient stock for {product.product_name}. Available:
\* {product.current_stock}, Requested: {quantity}': the text of the view's
\* 400, of the serializer's ValidationError and of the signal's ValueError.
InsufficientStock(available, requested) ==
    [message |-> "Insufficient stock", available |-> available,
     requested |-> requested]

\* The stock check of update_inventory_and_cost_layers (under the row lock).
SignalStockOk(current_stock, quantity_sold) == ~(current_stock < quantity_sold)

\* UpdateInventoryAndCostLayers that leaves the ledger as it is.
UpdateInventoryAndCostLayers_NoLedger(d, prod, p, quantity_sold, sale_id) ==
    [d EXCEPT !.cost_layers = ConsumeLayers(d.cost_layers, p, quantity_sold),
              !.product[p] = [prod EXCEPT !.current_stock = @ - quantity_sold]]

\* UpdateInventoryAndCostLayers whose ledger entry records the stock the
\* sale found, not the stock it leaves.
UpdateInventoryAndCostLayers_StockBefore(d, prod, p, quantity_sold, sale_id) ==
    LET after == prod.current_stock - quantity_sold
    IN  [d EXCEPT !.cost_layers = ConsumeLayers(d.cost_layers, p, quantity_sold),
                  !.product[p] = [prod EXCEPT !.current_stock = after],
                  !.ledger = Append(@, Txn(p, "sale", -quantity_sold,
                                           prod.current_stock, sale_id))]

\* post_save of a new SaleItem, once the stock check has passed.  prod is the
\* Product instance select_for_update().get() has returned; product.save()
\* writes all of its fields.
UpdateInventoryAndCostLayers(d, prod, p, quantity_sold, sale_id) ==
    LET after == prod.current_stock - quantity_sold
    IN  [d EXCEPT !.cost_layers = ConsumeLayers(d.cost_layers, p, quantity_sold),
                  !.product[p] = [prod EXCEPT !.current_stock = after],
                  !.ledger = Append(@, Txn(p, "sale", -quantity_sold, after, sale_id))]

\* SaleItemViewSet.create: float(quantity) > float(product.current_stock)
ViewStockOk(current_stock, quantity) == ~(quantity > current_stock)

\* SaleItemSerializer.validate: if product and quantity: quantity >
\* product.current_stock
SerializerStockOk(current_stock, quantity) ==
    ~(quantity # 0 /\ quantity > current_stock)

\* The INSERT of the SaleItem row, with the unit_cost pre_save has set.
InsertSaleItem(d, p, quantity, unit_cost) ==
    [d EXCEPT !.sale_items =
                  Append(@, [id |-> d.next_id.sale_item, sale |-> SaleId,
                             product |-> p, quantity |-> quantity,
                             unit_cost |-> unit_cost]),
              !.next_id.sale_item = @ + 1]

\* post_save of the row just inserted in d, on the Product instance prod; an
\* exception leaves the database as it was before the request (rollback).
PostSaveSaleItem(rollback, d, prod, p, quantity) ==
    IF ~SignalStockOk(prod.current_stock, quantity)
    THEN [db |-> rollback, outcome |-> "ValueError",
          detail |-> InsufficientStock(prod.current_stock, quantity)]
    ELSE IF ~StockNonNegative(prod.current_stock - quantity)
    THEN [db |-> rollback, outcome |-> "IntegrityError", detail |-> NoError]
    ELSE [db |-> UpdateInventoryAndCostLayers(d, prod, p, quantity, SaleId),
          outcome |-> "created", detail |-> NoError]

\* super().create(): the serializer's check, then SaleItem.objects.create
\* with its pre_save and post_save handlers.
SaveSaleItem(d, p, quantity, unit_cost) ==
    IF ~SerializerStockOk(d.product[p].current_stock, quantity)
    THEN [db |-> d, outcome |-> "insufficient_stock",
          detail |-> InsufficientStock(d.product[p].current_stock, quantity)]
    ELSE IF FifoCostRaises(d, p, quantity, unit_cost)
    THEN [db |-> d, outcome |-> "InvalidOperation", detail |-> NoError]
    ELSE PostSaveSaleItem(
             d, InsertSaleItem(d, p, quantity,
                               CalculateFifoCost(d, p, quantity, unit_cost)),
             d.product[p], p, quantity)

\* ValidatedUnitCost for a serializer whose unit_cost is writable.
ValidatedUnitCost_Writable(unit_cost) == unit_cost

\* The unit_cost of the instance SaleItemSerializer builds from a request:
\* the field is declared read_only, so the value the request carries is left
\* out of validated_data and the instance has the model's default, 0.
ValidatedUnitCost(unit_cost) == 0

\* POST /sale-items/: the view's check on the locked row, then the creation.
CreateSaleItem(d, p, quantity, unit_cost) ==
    IF ~ViewStockOk(d.product[p].current_stock, quantity)
    THEN [db |-> d, outcome |-> "insufficient_stock",
          detail |-> InsufficientStock(d.product[p].current_stock, quantity)]
    ELSE SaveSaleItem(d, p, quantity, unit_cost)

\* UpdateSaleItem that treats the saved line as a new one: the handlers cost
\* it and take it from stock again.
UpdateSaleItem_AsCreated(d, i, quantity) ==
    LET row == d.sale_items[i]
        r == SaveSaleItem(d, row.product, quantity, 0)
    IN  [db |-> r.db,
         outcome |-> IF r.outcome = "created" THEN "updated" ELSE r.outcome]

\* PUT /sale-items/{id}/ with a new quantity (ModelViewSet.update): the
\* serializer's check, then instance.save().  calculate_fifo_cost returns at
\* once because instance.pk is set, update_inventory_and_cost_layers because
\* created is false; unit_cost is read-only in the serializer.
UpdateSaleItem(d, i, quantity) ==
    LET row == d.sale_items[i]
    IN  IF ~SerializerStockOk(d.product[row.product].current_stock, quantity)
        THEN [db |-> d, outcome |-> "insufficient_stock"]
        ELSE [db |-> [d EXCEPT !.sale_items[i].quantity = quantity],
              outcome |-> "updated"]

----------------------------------------------------------------------------
(* Purchase receipt (views.py, PurchaseViewSet.receive)                    *)

\* purchase.items.all(): Meta.ordering = ['product__product_name'] fixes the
\* order of lines whose products differ in name only; lines of one product,
\* and lines of products of the same name, come in an order the database
\* chooses.
ItemOrders(pu) ==
    LET its == purchase_items[pu]
        n == Len(its)
        perms == {f \in [1..n -> 1..n] : \A i, j \in 1..n : i # j => f[i] # f[j]}
    IN  {[i \in 1..n |-> its[f[i]]] : f \in
            {g \in perms : \A i, j \in 1..n :
                i < j => its[g[i]].product_name <= its[g[j]].product_name}}

\* CostLayer.objects.create(...) of receive; the fields it does not pass take
\* the model's defaults.
\* ReceiptLayer converting at the default rate instead of the stored one.
ReceiptLayer_DefaultRate(d, item) ==
    [id |-> d.next_id.layer,
     product |-> item.product,
     purchase_item |-> item.id,
     unit_cost |-> item.unit_cost,
     unit_cost_gtq |-> RoundDiv(item.unit_cost * DefaultRate, RateScale),
     base_unit_cost |-> item.unit_cost,
     allocated_logistics_per_unit |-> 0,
     logistics_allocated |-> FALSE,
     quantity_remaining |-> item.quantity,
     original_quantity |-> item.quantity,
     created_at |-> d.next_id.layer]

ReceiptLayer(d, item) ==
    [id |-> d.next_id.layer,
     product |-> item.product,
     purchase_item |-> item.id,
     unit_cost |-> item.unit_cost,
     unit_cost_gtq |-> RoundDiv(item.unit_cost * d.rate, RateScale),
     base_unit_cost |-> item.unit_cost,
     allocated_logistics_per_unit |-> 0,
     logistics_allocated |-> FALSE,
     quantity_remaining |-> item.quantity,
     original_quantity |-> item.quantity,
     created_at |-> d.next_id.layer]

\* One turn of receive's loop.  prod is the Product instance item.product
\* has loaded; product.save() writes all of its fields.
ReceiveItem(d, pu, item, prod) ==
    LET p == item.product
        stock == prod.current_stock + item.quantity
        saved == [d EXCEPT !.product[p] =
                               [prod EXCEPT !.current_stock = stock,
                                            !.last_purchase_cost = item.unit_cost],
                           !.cost_layers = Append(@, ReceiptLayer(d, item)),
                           !.next_id.layer = @ + 1]
        averaged == UpdateAverageCost(saved, p)
    IN  [averaged EXCEPT !.ledger =
                             Append(@, Txn(p, "purchase", item.quantity, stock, pu))]

RECURSIVE ReceiveItems(_, _, _)
ReceiveItems(d, pu, its) ==
    IF its = <<>> THEN d
    ELSE ReceiveItems(ReceiveItem(d, pu, Head(its), d.product[Head(its).product]),
                      pu, Tail(its))

\* The loop of receive over the lines it has handled, each with the Product
\* instance it had loaded for the line.
RECURSIVE ReceiveItemsRead(_, _, _)
ReceiveItemsRead(d, pu, lines) ==
    IF lines = <<>> THEN d
    ELSE ReceiveItemsRead(ReceiveItem(d, pu, Head(lines).item, Head(lines).product),
                          pu, Tail(lines))

\* purchase.status = 'received'; purchase.save()
MarkReceived(d, pu) == [d EXCEPT !.purchase[pu].status = "received"]

\* Receive with the Product instance of every line loaded before the loop.
Receive_LoadedOnce(d, pu, its) ==
    IF d.purchase[pu].status = "received"
    THEN [db |-> d, outcome |-> "already_received"]
    ELSE [db |-> ReceiveItemsRead(MarkReceived(d, pu), pu,
                     [k \in 1..Len(its) |->
                         [item |-> its[k], product |-> d.product[its[k].product]]]),
          outcome |-> "received"]

\* POST /purchases/{id}/receive/
Receive(d, pu, its) ==
    IF d.purchase[pu].status = "received"
    THEN [db |-> d, outcome |-> "already_received"]
    ELSE [db |-> ReceiveItems(MarkReceived(d, pu), pu, its),
          outcome |-> "received"]

----------------------------------------------------------------------------
(* Sale-line deletion (signals.py, restore_inventory_on_delete)            *)

\* RestorationCost that ignores the line's own unit_cost.
RestorationCost_AverageOnly(d, row) == AverageCostGtq(d, row.product)

\* The restoration cost in GTQ, as a numerator over RateScale: the line's
\* unit_cost, or product.average_cost_gtq when that is not positive.
RestorationCost(d, row) ==
    IF row.unit_cost > 0 THEN row.unit_cost * RateScale
    ELSE AverageCostGtq(d, row.product)

\* RestorationLayer that leaves base_unit_cost at the field's default.
RestorationLayer_DefaultBase(d, row, cost) ==
    [id |-> d.next_id.layer,
     product |-> row.product,
     purchase_item |-> None,
     unit_cost |-> RoundDiv(cost, d.rate),
     unit_cost_gtq |-> RoundDiv(cost, RateScale),
     base_unit_cost |-> 0,
     allocated_logistics_per_unit |-> 0,
     logistics_allocated |-> TRUE,
     quantity_remaining |-> row.quantity,
     original_quantity |-> row.quantity,
     created_at |-> d.next_id.layer]

RestorationLayer(d, row, cost) ==
    [id |-> d.next_id.layer,
     product |-> row.product,
     purchase_item |-> None,
     unit_cost |-> RoundDiv(cost, d.rate),
     unit_cost_gtq |-> RoundDiv(cost, RateScale),
     base_unit_cost |-> RoundDiv(cost, d.rate),
     allocated_logistics_per_unit |-> 0,
     logistics_allocated |-> TRUE,
     quantity_remaining |-> row.quantity,
     original_quantity |-> row.quantity,
     created_at |-> d.next_id.layer]

\* "Only create cost layer if we have a valid cost"
RestoreLayer(d, row) ==
    LET cost == RestorationCost(d, row)
    IN  IF cost > 0
        THEN [d EXCEPT !.cost_layers = Append(@, RestorationLayer(d, row, cost)),
                       !.next_id.layer = @ + 1]
        ELSE d

\* InventoryTransaction.objects.filter(product, 'sale', reference_id=sale_id,
\*     quantity_change=-quantity).delete()
DeleteSaleTransactions(ledger_rows, row) ==
    SelectSeq(ledger_rows,
              LAMBDA t : ~(/\ t.product = row.product
                           /\ t.transaction_type = "sale"
                           /\ t.reference_id = row.sale
                           /\ t.quantity_change = -row.quantity))

\* post_delete of a SaleItem.  prod is the Product instance instance.product
\* has loaded; product.save() writes all of its fields.
RestoreInventoryOnDelete(d, row, prod) ==
    LET p == row.product
        stock == prod.current_stock + row.quantity
        saved == [d EXCEPT !.product[p] = [prod EXCEPT !.current_stock = stock],
                           !.ledger = DeleteSaleTransactions(@, row)]
        averaged == UpdateAverageCost(RestoreLayer(saved, row), p)
    IN  [averaged EXCEPT !.ledger =
                             Append(@, Txn(p, "adjustment", row.quantity, stock, row.sale))]

\* The DELETE of the row and its post_delete handler, on the Product
\* instance prod; product.save() raises IntegrityError when the stock it
\* writes breaks the CHECK constraint, and the deletion is rolled back.
DeleteSaleRow(d, row, prod) ==
    LET deleted == [d EXCEPT !.sale_items = SelectSeq(@, LAMBDA r : r.id # row.id)]
    IN  IF ~StockNonNegative(prod.current_stock + row.quantity)
        THEN [db |-> d, outcome |-> "IntegrityError"]
        ELSE [db |-> RestoreInventoryOnDelete(deleted, row, prod),
              outcome |-> "deleted"]

\* DELETE /sale-items/{id}/
DeleteSaleItem(d, i) ==
    DeleteSaleRow(d, d.sale_items[i], d.product[d.sale_items[i].product])

----------------------------------------------------------------------------
(* Purchase deletion (signals.py, reverse_purchase_on_delete)              *)

\* "Safety: don't go negative"
ClampStock(current_stock) == IF current_stock < 0 THEN 0 ELSE current_stock

\* One turn of the first loop.  prod is the Product instance items_data
\* holds for this line, loaded before the loop started.
ReversePurchaseItem(d, item, prod) ==
    LET p == item.product
        stock == ClampStock(prod.current_stock - item.quantity)
        saved == [d EXCEPT !.product[p] = [prod EXCEPT !.current_stock = stock],
                           !.cost_layers =
                               SelectSeq(@, LAMBDA l : l.purchase_item # item.id)]
    IN  UpdateAverageCost(saved, p)

\* items_data: each line with the Product instance loaded for it.
ItemsData(d, its) ==
    [i \in 1..Len(its) |-> [item |-> its[i], product |-> d.product[its[i].product]]]

RECURSIVE ReversePurchaseItems(_, _)
ReversePurchaseItems(d, items_data) ==
    IF items_data = <<>> THEN d
    ELSE ReversePurchaseItems(
             ReversePurchaseItem(d, Head(items_data).item, Head(items_data).product),
             Tail(items_data))

\* ReversalAdjustments that appends one row per product, not per line.
RECURSIVE ReversalAdjustments_PerProduct(_, _, _)
ReversalAdjustments_PerProduct(d, pu, its) ==
    IF its = <<>> THEN d
    ELSE IF \E k \in 2..Len(its) : its[k].product = Head(its).product
    THEN ReversalAdjustments_PerProduct(d, pu, Tail(its))
    ELSE ReversalAdjustments_PerProduct(
             [d EXCEPT !.ledger =
                 Append(@, Txn(Head(its).product, "adjustment", -Head(its).quantity,
                               d.product[Head(its).product].current_stock, pu))],
             pu, Tail(its))

\* The second loop: product.refresh_from_db() and one adjustment row per line.
RECURSIVE ReversalAdjustments(_, _, _)
ReversalAdjustments(d, pu, its) ==
    IF its = <<>> THEN d
    ELSE ReversalAdjustments(
             [d EXCEPT !.ledger =
                 Append(@, Txn(Head(its).product, "adjustment", -Head(its).quantity,
                               d.product[Head(its).product].current_stock, pu))],
             pu, Tail(its))

\* The handler from its first loop on, given the items_data it has built.
ReversePurchaseOnDelete(d, pu, items_data) ==
    LET reversed == ReversePurchaseItems(d, items_data)
        purged == [reversed EXCEPT !.ledger =
                      SelectSeq(@, LAMBDA t : ~(/\ t.transaction_type = "purchase"
                                                /\ t.reference_id = pu))]
    IN  ReversalAdjustments(purged, pu,
                            [i \in 1..Len(items_data) |-> items_data[i].item])

\* DeletePurchaseRow whose handler reverses the purchase whatever its status.
DeletePurchaseRow_AnyStatus(d, pu, status, items_data) ==
    LET handled == ReversePurchaseOnDelete(d, pu, items_data)
        item_ids == {purchase_items[pu][i].id : i \in 1..Len(purchase_items[pu])}
    IN  [handled EXCEPT
            !.purchase[pu].status = "deleted",
            !.cost_layers =
                [i \in 1..Len(@) |->
                    IF @[i].purchase_item \in item_ids
                    THEN [@[i] EXCEPT !.purchase_item = None] ELSE @[i]]]

\* The pre_delete handler on a Purchase instance of the given status, then
\* the row goes, its lines with it (CASCADE) and purchase_item of any layer
\* left is set NULL.
DeletePurchaseRow(d, pu, status, items_data) ==
    LET handled == IF status = "received"
                   THEN ReversePurchaseOnDelete(d, pu, items_data)
                   ELSE d
        item_ids == {purchase_items[pu][i].id : i \in 1..Len(purchase_items[pu])}
    IN  [handled EXCEPT
            !.purchase[pu].status = "deleted",
            !.cost_layers =
                [i \in 1..Len(@) |->
                    IF @[i].purchase_item \in item_ids
                    THEN [@[i] EXCEPT !.purchase_item = None] ELSE @[i]]]

\* DELETE /purchases/{id}/
DeletePurchase(d, pu, its) ==
    DeletePurchaseRow(d, pu, d.purchase[pu].status, ItemsData(d, its))

----------------------------------------------------------------------------
(* Logistics allocation (models.py, Purchase)                              *)

\* PurchaseItem.total_price
TotalPrice(item) == item.quantity * item.unit_cost - item.discount

\* Purchase.product_cost: sum(item.total_price for item in self.items.all())
ProductCost(its) == SumTo([i \in 1..Len(its) |-> TotalPrice(its[i])], Len(its))

\* item.cost_layer.  CostLayer.purchase_item is a ForeignKey with
\* related_name='cost_layer', so the reverse accessor on a PurchaseItem is a
\* related manager over the line's layers, whether or not any exists; it is
\* never a CostLayer and never raises CostLayer.DoesNotExist.
ItemCostLayer(d, item) ==
    [kind |-> "RelatedManager",
     rows |-> SelectSeq(d.cost_layers, LAMBDA l : l.purchase_item = item.id)]

\* The update of one layer and its product (the body of the try block once
\* cost_layer is a CostLayer row that is not yet allocated).
AllocateToLayer(d, item, layer, total_product_cost, total_logistics) ==
    LET item_product_cost == item.quantity * item.unit_cost
        \* logistics_per_unit = item_product_cost / total_product_cost
        \*                      * total_logistics / item.quantity
        num == item_product_cost * total_logistics
        den == total_product_cost * item.quantity
        unit_cost == RoundDiv(layer.base_unit_cost * den + num, den)
        updated ==
            [d EXCEPT !.cost_layers =
                [i \in 1..Len(@) |->
                    IF @[i].id = layer.id
                    THEN [layer EXCEPT
                             !.allocated_logistics_per_unit = RoundDiv(num, den),
                             !.unit_cost = unit_cost,
                             !.logistics_allocated = TRUE]
                    ELSE @[i]],
                      !.product[item.product].last_purchase_cost = unit_cost]
    IN  UpdateAverageCost(updated, item.product)

\* for item in self.items.all(): ...  Reading cost_layer.logistics_allocated
\* off a related manager raises AttributeError, which the handler for
\* CostLayer.DoesNotExist does not catch.
RECURSIVE AllocateLoop(_, _, _, _)
AllocateLoop(d, its, total_product_cost, total_logistics) ==
    IF its = <<>> THEN [db |-> d, outcome |-> "True"]
    ELSE LET cost_layer == ItemCostLayer(d, Head(its))
         IN  IF cost_layer.kind = "RelatedManager"
             THEN [db |-> d, outcome |-> "AttributeError"]
             ELSE IF cost_layer.kind = "DoesNotExist"
                     \/ cost_layer.rows[1].logistics_allocated
             THEN AllocateLoop(d, Tail(its), total_product_cost, total_logistics)
             ELSE AllocateLoop(
                      AllocateToLayer(d, Head(its), cost_layer.rows[1],
                                      total_product_cost, total_logistics),
                      Tail(its), total_product_cost, total_logistics)

\* allocate_logistics_costs without the early return on a zero product cost.
AllocateLogisticsCosts_NoCostCheck(d, pu) ==
    LET row == d.purchase[pu]
        its == purchase_items[pu]
    IN  IF row.real_shipping = None \/ row.real_taxes = None
        THEN [db |-> d, outcome |-> "False"]
        ELSE IF row.real_shipping + row.real_taxes = 0
        THEN [db |-> d, outcome |-> "False"]
        ELSE AllocateLoop(d, its, ProductCost(its),
                          row.real_shipping + row.real_taxes)

\* Purchase.allocate_logistics_costs
AllocateLogisticsCosts(d, pu) ==
    LET row == d.purchase[pu]
        its == purchase_items[pu]
    IN  IF row.real_shipping = None \/ row.real_taxes = None
        THEN [db |-> d, outcome |-> "False"]
        ELSE IF row.real_shipping + row.real_taxes = 0
        THEN [db |-> d, outcome |-> "False"]
        ELSE IF ProductCost(its) = 0
        THEN [db |-> d, outcome |-> "False"]
        ELSE AllocateLoop(d, its, ProductCost(its),
                          row.real_shipping + row.real_taxes)

\* SavePurchase that allocates whenever the saved row has both real costs.
SavePurchase_Always(d, pu, status, real_shipping, real_taxes) ==
    LET saved == [d EXCEPT !.purchase[pu].status = status,
                           !.purchase[pu].real_shipping = real_shipping,
                           !.purchase[pu].real_taxes = real_taxes]
    IN  IF real_shipping # None /\ real_taxes # None /\ status = "received"
        THEN AllocateLogisticsCosts(saved, pu)
        ELSE [db |-> saved, outcome |-> "saved"]

\* Purchase.save on an existing row, as PUT/PATCH /purchases/{id}/ with a
\* status and real costs reaches it: the row is written (autocommit) before
\* allocation runs, so it stays written when allocation raises.
SavePurchase(d, pu, status, real_shipping, real_taxes) ==
    LET old_instance == d.purchase[pu]
        real_costs_just_added ==
            /\ (old_instance.real_shipping = None \/ old_instance.real_taxes = None)
            /\ (real_shipping # None /\ real_taxes # None)
        saved == [d EXCEPT !.purchase[pu].status = status,
                           !.purchase[pu].real_shipping = real_shipping,
                           !.purchase[pu].real_taxes = real_taxes]
    IN  IF real_costs_just_added /\ saved.purchase[pu].status = "received"
        THEN AllocateLogisticsCosts(saved, pu)
        ELSE [db |-> saved, outcome |-> "saved"]

----------------------------------------------------------------------------
(* The worker processes.                                                   *)

Procs == {1, 2}

NoRow == [id |-> 0, sale |-> 0, product |-> 0, quantity |-> 0, unit_cost |-> 0]

\* A worker with no request: pc is where it stands in the handler, row and
\* prod the SaleItem and Product instances it has loaded, status the status
\* of the Purchase instance it has loaded, todo and done the lines its loop
\* has still to handle and has handled, seq the rank of its request among
\* all requests, before the stock of the request's product on arrival,
\* held what the layers of that product held on arrival, joined whether
\* another request was being served when it arrived and overlapped whether
\* one has been served at the same time as it.
IdleProc ==
    [pc |-> "idle", op |-> "none", purchase |-> 0, product |-> 0, quantity |-> 0,
     row |-> NoRow, prod |-> ProductRow(0, 0), status |-> "none",
     todo |-> <<>>, done |-> <<>>,
     seq |-> 0, before |-> 0, held |-> 0, joined |-> FALSE, overlapped |-> FALSE,
     outcome |-> "none"]

----------------------------------------------------------------------------
(* The requests, one served at a time.                                     *)

\* What is remembered of a request: its inputs (of the unit_cost a sale line
\* was submitted with, only that of a line that was created), its outcome,
\* the detail of an error answer and the stock of every product when it
\* arrived.
Request(op, pu, p, q, id, outcome) ==
    [op |-> op, purchase |-> pu, product |-> p, quantity |-> q, id |-> id,
     unit_cost |-> 0, outcome |-> outcome, detail |-> NoError,
     before |-> [x \in Products |-> product[x].current_stock]]

Served(r) ==
    /\ nops < MaxOps
    /\ nops' = nops + 1
    /\ last' = r
    /\ UNCHANGED <<purchase_items, procs, locks>>

Exists(pu) == purchase[pu].status # "deleted"

DoReceive ==
    \E pu \in PurchaseIds : \E its \in ItemOrders(pu) :
        /\ Exists(pu)
        /\ LET r == Receive(DB, pu, its)
           IN  /\ Store(r.db)
               /\ Served(Request("receive", pu, 0, 0, 0, r.outcome))

DoCreateSaleItem ==
    \E p \in Products : \E in \in SaleInputs :
        LET q == in[1]
            uc == in[2]
            r == CreateSaleItem(DB, p, q, ValidatedUnitCost(uc))
        IN  /\ Store(r.db)
            /\ Served([Request("create_sale_item", 0, p, q, next_id.sale_item,
                               r.outcome) EXCEPT
                         !.detail = r.detail,
                         !.unit_cost = IF r.outcome = "created" THEN uc ELSE 0])

DoDeleteSaleItem ==
    \E i \in 1..Len(sale_items) :
        LET r == DeleteSaleItem(DB, i)
        IN  /\ Store(r.db)
            /\ Served(Request("delete_sale_item", 0, sale_items[i].product,
                              sale_items[i].quantity, sale_items[i].id, r.outcome))

DoUpdateSaleItem ==
    \E i \in 1..Len(sale_items) : \E q \in EditQuantities :
        LET r == UpdateSaleItem(DB, i, q)
        IN  /\ Store(r.db)
            /\ Served(Request("update_sale_item", 0, sale_items[i].product, q,
                              sale_items[i].id, r.outcome))

DoDeletePurchase ==
    \E pu \in PurchaseIds : \E its \in ItemOrders(pu) :
        /\ Exists(pu)
        /\ Store(DeletePurchase(DB, pu, its))
        /\ Served(Request("delete_purchase", pu, 0, 0, 0, purchase[pu].status))

DoSavePurchase ==
    \E pu \in PurchaseIds : \E in \in PurchaseInputs(purchase[pu]) :
        /\ Exists(pu)
        /\ LET r == SavePurchase(DB, pu, in[1], in[2], in[3])
           IN  /\ Store(r.db)
               /\ Served(Request("save_purchase", pu, 0, 0, 0, r.outcome))

\* PUT /settings/: SystemSettingsViewSet.update
DoUpdateSettings ==
    \E r \in Rates \ {rate} :
        /\ Store([DB EXCEPT !.rate = r])
        /\ Served(Request("update_settings", 0, 0, 0, 0, "saved"))

Init ==
    /\ rate = DefaultRate
    /\ \E o \in InitialData :
           product = o.product /\ purchase_items = o.purchase_items
    /\ purchase = [pu \in PurchaseIds |->
                      [status |-> "pending", real_shipping |-> None,
                       real_taxes |-> None]]
    /\ cost_layers = <<>>
    /\ sale_items = <<>>
    /\ ledger = <<>>
    /\ next_id = [layer |-> 1, sale_item |-> 1]
    /\ nops = 0
    /\ last = Request("none", 0, 0, 0, 0, "none")
    /\ procs = [i \in Procs |-> IdleProc]
    /\ locks = {}

Next ==
    \/ DoReceive
    \/ DoCreateSaleItem
    \/ DoDeleteSaleItem
    \/ DoUpdateSaleItem
    \/ DoDeletePurchase
    \/ DoSavePurchase
    \/ DoUpdateSettings

Spec == Init /\ [][Next]_vars

----------------------------------------------------------------------------
(* The requests served concurrently.  Each worker runs its handler in its   *)
(* own transaction: what it writes is seen by the others when it commits,   *)
(* and a row it has written or selected for update stays locked until then. *)
(* A step below is one statement, or several with nothing another worker    *)
(* can tell apart in between.                                               *)

ProductLock(p) == <<"product", p>>
SaleItemLock(id) == <<"sale_item", id>>
PurchaseLock(pu) == <<"purchase", pu>>
PurchaseItemLock(id) == <<"purchase_item", id>>

\* A lock request that never waits.
CanLock_NoWait(i, row) == TRUE

\* Worker i gets the lock of the row: nobody else holds it.
CanLock(i, row) == \A l \in locks : l.row = row => l.holder = i

Acquire(i, row) == locks' = locks \cup {[row |-> row, holder |-> i]}

AcquireAll(i, rows) == locks' = locks \cup {[row |-> r, holder |-> i] : r \in rows}

\* COMMIT or ROLLBACK: the locks of the transaction go.
Release(i) == locks' = {l \in locks : l.holder # i}

\* The request is assigned to the first worker that is free.
Free(i) ==
    /\ procs[i].pc = "idle"
    /\ \A j \in Procs : j < i => procs[j].pc # "idle"
    /\ nops < MaxConcOps

\* Worker i takes a request; the workers still busy overlap with it.
Accept(i, r) ==
    /\ nops' = nops + 1
    /\ procs' = [j \in Procs |->
                    IF j = i
                    THEN LET busy == \E k \in Procs \ {i} : procs[k].pc # "idle"
                         IN  [r EXCEPT !.seq = nops + 1,
                                       !.joined = busy,
                                       !.overlapped = busy]
                    ELSE IF procs[j].pc # "idle"
                         THEN [procs[j] EXCEPT !.overlapped = TRUE]
                         ELSE procs[j]]

\* Worker i answers and its transaction ends.
Finish(i, outcome) ==
    /\ procs' = [procs EXCEPT ![i].pc = "idle", ![i].outcome = outcome]
    /\ Release(i)

NoData == UNCHANGED <<rate, product, purchase, purchase_items, cost_layers,
                      sale_items, ledger, next_id, last>>

Commit(d) == Store(d) /\ UNCHANGED <<purchase_items, last, nops>>

(* POST /sale-items/ *)

\* The units the layers of p with quantity_remaining > 0 hold.
QuantityHeld(ls, p) ==
    SumTo([k \in 1..Len(FifoLayers(ls, p)) |->
              FifoLayers(ls, p)[k].quantity_remaining],
          Len(FifoLayers(ls, p)))

ArriveSale(i) ==
    \E p \in Products : \E q \in ConcSaleQuantities :
        /\ Free(i)
        /\ Accept(i, [IdleProc EXCEPT !.pc = "sale_begin", !.op = "create_sale_item",
                                      !.product = p, !.quantity = q,
                                      !.before = product[p].current_stock,
                                      !.held = QuantityHeld(cost_layers, p)])
        /\ UNCHANGED locks /\ NoData

\* SaleItemViewSet.create: select_for_update().get(), then the stock check.
SaleBegin(i) ==
    LET me == procs[i]
        prod == product[me.product]
    IN  /\ me.pc = "sale_begin"
        /\ CanLock(i, ProductLock(me.product))
        /\ IF ~ViewStockOk(prod.current_stock, me.quantity)
           THEN Finish(i, "insufficient_stock")
           ELSE /\ Acquire(i, ProductLock(me.product))
                /\ procs' = [procs EXCEPT ![i].pc = "sale_save", ![i].prod = prod]
        /\ UNCHANGED nops /\ NoData

\* super().create(): the serializer's check, pre_save, the INSERT, and the
\* select_for_update().get() of post_save.
SaleSave(i) ==
    LET me == procs[i]
        p == me.product
    IN  /\ me.pc = "sale_save"
        /\ IF ~SerializerStockOk(product[p].current_stock, me.quantity)
           THEN Finish(i, "insufficient_stock")
           ELSE IF FifoCostRaises(DB, p, me.quantity, 0)
           THEN Finish(i, "InvalidOperation")
           ELSE /\ CanLock(i, ProductLock(p))
                /\ Acquire(i, ProductLock(p))
                /\ procs' = [procs EXCEPT
                       ![i].pc = "sale_commit",
                       ![i].prod = product[p],
                       ![i].row = [NoRow EXCEPT
                                      !.unit_cost =
                                          CalculateFifoCost(DB, p, me.quantity, 0)]]
        /\ UNCHANGED nops /\ NoData

\* The rest of post_save, and the end of the view's transaction.
SaleCommit(i) ==
    LET me == procs[i]
        r == PostSaveSaleItem(
                 DB, InsertSaleItem(DB, me.product, me.quantity, me.row.unit_cost),
                 me.prod, me.product, me.quantity)
    IN  /\ me.pc = "sale_commit"
        /\ Commit(r.db)
        /\ Finish(i, r.outcome)

(* DELETE /sale-items/{id}/ *)

\* get_object()
ArriveDeleteSale(i) ==
    \E k \in 1..Len(sale_items) :
        /\ Free(i)
        /\ Accept(i, [IdleProc EXCEPT !.pc = "del_sale_delete",
                                      !.op = "delete_sale_item",
                                      !.product = sale_items[k].product,
                                      !.quantity = sale_items[k].quantity,
                                      !.row = sale_items[k],
                                      !.before =
                                          product[sale_items[k].product].current_stock])
        /\ UNCHANGED locks /\ NoData

\* The DELETE of the row, and instance.product in post_delete.
DelSaleDelete(i) ==
    LET me == procs[i]
    IN  /\ me.pc = "del_sale_delete"
        /\ CanLock(i, SaleItemLock(me.row.id))
        /\ Acquire(i, SaleItemLock(me.row.id))
        /\ procs' = [procs EXCEPT ![i].pc = "del_sale_write",
                                  ![i].prod = product[me.product]]
        /\ UNCHANGED nops /\ NoData

\* post_delete from product.save() on, and the end of the transaction.
DelSaleWrite(i) ==
    LET me == procs[i]
        r == DeleteSaleRow(DB, me.row, me.prod)
    IN  /\ me.pc = "del_sale_write"
        /\ CanLock(i, ProductLock(me.product))
        /\ Commit(r.db)
        /\ Finish(i, r.outcome)

(* POST /purchases/{id}/receive/ *)

\* What worker i's transaction has written so far, on top of what is
\* committed.
ReceiveView(i) ==
    ReceiveItemsRead(MarkReceived(DB, procs[i].purchase), procs[i].purchase,
                     procs[i].done)

\* get_object() and the status check
ArriveReceive(i) ==
    \E pu \in PurchaseIds :
        /\ Free(i)
        /\ Exists(pu)
        /\ Accept(i, IF purchase[pu].status = "received"
                     THEN [IdleProc EXCEPT !.op = "receive", !.purchase = pu,
                                           !.outcome = "already_received"]
                     ELSE [IdleProc EXCEPT !.pc = "recv_save", !.op = "receive",
                                           !.purchase = pu])
        /\ UNCHANGED locks /\ NoData

\* purchase.save() and purchase.items.all().  The UPDATE locks the row of
\* the purchase.  When the purchase has been deleted since get_object(),
\* Purchase.save catches DoesNotExist, the UPDATE finds no row and
\* Model.save INSERTs the row again; it has no line left, the loop has
\* nothing to do and the transaction ends.
RecvSave(i) ==
    LET me == procs[i]
    IN  /\ me.pc = "recv_save"
        /\ CanLock(i, PurchaseLock(me.purchase))
        /\ IF ~Exists(me.purchase)
           THEN /\ purchase' = [purchase EXCEPT ![me.purchase].status = "received"]
                /\ purchase_items' = [purchase_items EXCEPT ![me.purchase] = <<>>]
                /\ Finish(i, "received")
                /\ UNCHANGED <<rate, product, cost_layers, sale_items, ledger,
                               next_id, last, nops>>
           ELSE /\ Acquire(i, PurchaseLock(me.purchase))
                /\ \E its \in ItemOrders(me.purchase) :
                       procs' = [procs EXCEPT ![i].pc = "recv_read",
                                              ![i].todo = its]
                /\ UNCHANGED nops /\ NoData

\* product = item.product
RecvRead(i) ==
    LET me == procs[i]
    IN  /\ me.pc = "recv_read"
        /\ procs' = [procs EXCEPT
               ![i].pc = "recv_write",
               ![i].prod = ReceiveView(i).product[Head(me.todo).product]]
        /\ UNCHANGED <<nops, locks>> /\ NoData

\* The turn of the loop from product.save() on; after the last line the
\* transaction ends.  The UPDATE locks the row of the product, and the
\* INSERT of the layer locks the row of the line its foreign key refers to
\* (against a DELETE of the line).
RecvWrite(i) ==
    LET me == procs[i]
        item == Head(me.todo)
        done == Append(me.done, [item |-> item, product |-> me.prod])
    IN  /\ me.pc = "recv_write"
        /\ CanLock(i, ProductLock(item.product))
        /\ CanLock(i, PurchaseItemLock(item.id))
        /\ IF Tail(me.todo) = <<>>
           THEN /\ Commit(ReceiveItemsRead(MarkReceived(DB, me.purchase),
                                           me.purchase, done))
                /\ Finish(i, "received")
           ELSE /\ AcquireAll(i, {ProductLock(item.product),
                                  PurchaseItemLock(item.id)})
                /\ procs' = [procs EXCEPT ![i].pc = "recv_read",
                                          ![i].todo = Tail(me.todo),
                                          ![i].done = done]
                /\ UNCHANGED nops /\ NoData

(* DELETE /purchases/{id}/ *)

\* get_object()
ArriveDeletePurchase(i) ==
    \E pu \in PurchaseIds :
        /\ Free(i)
        /\ Exists(pu)
        /\ Accept(i, [IdleProc EXCEPT !.pc = "del_purchase_read",
                                      !.op = "delete_purchase",
                                      !.purchase = pu,
                                      !.status = purchase[pu].status])
        /\ UNCHANGED locks /\ NoData

\* instance.items.all() when the handler runs: the lines that are still
\* there.
StoredItemOrders(pu) == IF Exists(pu) THEN ItemOrders(pu) ELSE {<<>>}

\* pre_delete up to items_data; for a purchase that was not received the
\* handler returns at once.
DelPurchaseRead(i) ==
    LET me == procs[i]
    IN  /\ me.pc = "del_purchase_read"
        /\ \E its \in StoredItemOrders(me.purchase) :
               procs' = [procs EXCEPT
                   ![i].pc = IF me.status # "received" \/ its = <<>>
                             THEN "del_purchase_items" ELSE "del_purchase_write",
                   ![i].todo = IF me.status # "received" THEN <<>>
                               ELSE ItemsData(DB, its)]
        /\ UNCHANGED <<nops, locks>> /\ NoData

\* One turn of the first loop: product.save() locks the row of the product.
\* After the last turn the rest of the handler follows.
DelPurchaseWrite(i) ==
    LET me == procs[i]
        done == Append(me.done, Head(me.todo))
    IN  /\ me.pc = "del_purchase_write"
        /\ CanLock(i, ProductLock(Head(me.todo).item.product))
        /\ Acquire(i, ProductLock(Head(me.todo).item.product))
        /\ procs' = [procs EXCEPT
               ![i].pc = IF Tail(me.todo) = <<>> THEN "del_purchase_items"
                         ELSE "del_purchase_write",
               ![i].todo = Tail(me.todo),
               ![i].done = done]
        /\ UNCHANGED nops /\ NoData

\* The lines of the purchase that are still there.
StoredItemIds(pu) ==
    IF Exists(pu) THEN {purchase_items[pu][k].id : k \in 1..Len(purchase_items[pu])}
    ELSE {}

\* Collector.delete: the DELETE of the lines locks every line it reaches; it
\* waits at a line another transaction has locked, holding the others.
DelPurchaseItems(i) ==
    LET me == procs[i]
    IN  /\ me.pc = "del_purchase_items"
        /\ AcquireAll(i, {PurchaseItemLock(id) : id \in
                             {x \in StoredItemIds(me.purchase) :
                                 CanLock(i, PurchaseItemLock(x))}})
        /\ procs' = [procs EXCEPT ![i].pc = "del_purchase_row"]
        /\ UNCHANGED nops /\ NoData

\* The rest of the DELETE of the lines, the DELETE of the purchase and the
\* end of the transaction.
DelPurchaseRow(i) ==
    LET me == procs[i]
    IN  /\ me.pc = "del_purchase_row"
        /\ \A id \in StoredItemIds(me.purchase) : CanLock(i, PurchaseItemLock(id))
        /\ CanLock(i, PurchaseLock(me.purchase))
        /\ Commit(DeletePurchaseRow(DB, me.purchase, me.status, me.done))
        /\ Finish(i, "deleted")

\* The database the workers start on: purchase 1 has been received and, in
\* some runs, a sale line has been entered since.
EmptyDB(opening) ==
    [rate |-> DefaultRate, product |-> opening,
     purchase |-> [pu \in PurchaseIds |->
                      [status |-> "pending", real_shipping |-> None,
                       real_taxes |-> None]],
     cost_layers |-> <<>>, sale_items |-> <<>>, ledger |-> <<>>,
     next_id |-> [layer |-> 1, sale_item |-> 1]]

StockedDBs == {Receive(EmptyDB(NoOpeningStock), 1, its).db : its \in ItemOrders(1)}

OpenDBs ==
    StockedDBs \cup {CreateSaleItem(d, 1, -1, 0).db : d \in StockedDBs}

\* The workers start on one of the catalogues cs, with no request yet.
ConcStart(cs) ==
    /\ purchase_items \in cs
    /\ \E d \in OpenDBs :
           /\ rate = d.rate
           /\ product = d.product
           /\ purchase = d.purchase
           /\ cost_layers = d.cost_layers
           /\ sale_items = d.sale_items
           /\ ledger = d.ledger
           /\ next_id = d.next_id
    /\ nops = 0
    /\ last = Request("none", 0, 0, 0, 0, "none")
    /\ procs = [i \in Procs |-> IdleProc]
    /\ locks = {}

ConcInit == ConcStart(Catalogues)

ConcNext ==
    \E i \in Procs :
        \/ ArriveSale(i)
        \/ SaleBegin(i)
        \/ SaleSave(i)
        \/ SaleCommit(i)
        \/ ArriveDeleteSale(i)
        \/ DelSaleDelete(i)
        \/ DelSaleWrite(i)
        \/ ArriveReceive(i)
        \/ RecvSave(i)
        \/ RecvRead(i)
        \/ RecvWrite(i)
        \/ ArriveDeletePurchase(i)
        \/ DelPurchaseRead(i)
        \/ DelPurchaseWrite(i)
        \/ DelPurchaseItems(i)
        \/ DelPurchaseRow(i)

ConcSpec == ConcInit /\ [][ConcNext]_vars

\* The workers on purchases that each have a line of two products of the
\* same name.
LockInit == ConcStart({SameNamedProducts})

LockSpec == LockInit /\ [][ConcNext]_vars

----------------------------------------------------------------------------
(* Vocabulary of the properties.                                           *)

Layers == {cost_layers[i] : i \in 1..Len(cost_layers)}
LayersAfter == {cost_layers'[i] : i \in 1..Len(cost_layers')}

\* Sum of f[x] over x in S.
RECURSIVE SumOver(_, _)
SumOver(S, f) ==
    IF S = {} THEN 0
    ELSE LET x == CHOOSE x \in S : TRUE IN f[x] + SumOver(S \ {x}, f)

\* The layers of p a sale can draw on, and what they hold.
Available(p) == {l \in Layers : l.product = p /\ l.quantity_remaining > 0}
AvailableQuantity(p) ==
    SumOver(Available(p), [l \in Available(p) |-> l.quantity_remaining])

\* m is consumed before l.
Older(m, l) ==
    \/ m.created_at < l.created_at
    \/ (m.created_at = l.created_at /\ m.id < l.id)

\* What a sale of q units of p takes from layer l, oldest layer first.
Taken(l, p, q) ==
    IF l \notin Available(p) THEN 0
    ELSE LET ahead == SumOver({m \in Available(p) : Older(m, l)},
                              [m \in Available(p) |-> m.quantity_remaining])
         IN  IF q <= ahead THEN 0
             ELSE Min(q - ahead, l.quantity_remaining)

TakenCost(p, q) ==
    SumOver(Available(p), [l \in Available(p) |-> Taken(l, p, q) * l.unit_cost_gtq])

SaleCreated == last'.op = "create_sale_item" /\ last'.outcome = "created"
NewLine == sale_items'[Len(sale_items')]

LayersDecrementedFifo(p, q) ==
    /\ Len(cost_layers') = Len(cost_layers)
    /\ \A i \in 1..Len(cost_layers) :
           cost_layers'[i] =
               [cost_layers[i] EXCEPT !.quantity_remaining = @ - Taken(cost_layers[i], p, q)]

----------------------------------------------------------------------------
(* C1 *)

\* C1: in every reachable state, every product has current_stock >= 0,
\* whatever the interleaving of purchase receipts, sale-line creations,
\* sale-line deletions and purchase deletions.
C1_StockNonNegative == \A p \in Products : product[p].current_stock >= 0

\* A sale has taken the last units while the deletion of a line of negative
\* quantity was under way; the deletion would have left the stock below
\* zero and was refused.
C1_Witness ==
    \E i \in Procs :
        /\ procs[i].pc = "idle" /\ procs[i].op = "delete_sale_item"
        /\ procs[i].overlapped
        /\ procs[i].outcome = "IntegrityError"
        /\ product[procs[i].product].current_stock = 0
        /\ \E j \in Procs \ {i} :
               /\ procs[j].op = "create_sale_item" /\ procs[j].outcome = "created"
               /\ procs[j].product = procs[i].product

----------------------------------------------------------------------------
(* C2 *)

SaleDone(i) == procs[i].pc = "idle" /\ procs[i].op = "create_sale_item"

\* Workers i and j have served two sale-line creations for one product: i's
\* arrived when no request was being served, j's arrived next, while i's was
\* being served, and no request has arrived since; each quantity was within
\* the stock on arrival, both together were not.
ConcurrentSales(i, j) ==
    /\ SaleDone(i) /\ SaleDone(j)
    /\ procs[i].product = procs[j].product
    /\ ~procs[i].joined
    /\ procs[j].seq = procs[i].seq + 1 /\ procs[j].joined
    /\ nops = procs[j].seq
    /\ procs[i].quantity <= procs[i].before
    /\ procs[j].quantity <= procs[j].before
    /\ procs[i].quantity + procs[j].quantity > procs[i].before

Committed(i) == IF procs[i].outcome = "created" THEN procs[i].quantity ELSE 0

\* C2: of two concurrent sale-line creations for one product, each for a
\* quantity within the current stock and both together above it, exactly one
\* is committed and exactly one is rejected for insufficient stock, and the
\* stock ends at the initial stock less the committed quantity.
C2_OneSaleCommitted ==
    \A i, j \in Procs :
        ConcurrentSales(i, j)
        => /\ {procs[i].outcome, procs[j].outcome} = {"created", "insufficient_stock"}
           /\ product[procs[i].product].current_stock
                  = procs[i].before - Committed(i) - Committed(j)
           /\ product[procs[i].product].current_stock >= 0

\* Sales of 3 and of 4 on a stock of 5, served concurrently, are both done.
C2_Witness ==
    \E i, j \in Procs :
        /\ ConcurrentSales(i, j)
        /\ procs[i].before = 5
        /\ {procs[i].quantity, procs[j].quantity} = {3, 4}

----------------------------------------------------------------------------
(* C3 *)

\* The product has layers to draw on and they hold at least q units.
LayersCover(p, q) == Available(p) # {} /\ AvailableQuantity(p) >= q

\* C3 (as stated): a sale line of quantity q for a product whose layers hold
\* at least q units decrements the layers oldest first by
\* min(remaining need, quantity_remaining), and the line's total cost
\* (quantity x unit_cost) equals the sum of taken x unit_cost_gtq.
C3_LineTotalIsFifoSum ==
    [][ (SaleCreated /\ LayersCover(last'.product, last'.quantity))
        => /\ LayersDecrementedFifo(last'.product, last'.quantity)
           /\ NewLine.quantity * NewLine.unit_cost
                  = TakenCost(last'.product, last'.quantity) ]_vars

\* C3 (amended): the layers are decremented oldest first by
\* min(remaining need, quantity_remaining); the line stores as unit_cost the
\* sum of taken x unit_cost_gtq divided by q and rounded to cents, so that
\* quantity x unit_cost is that sum only up to the rounding.
C3_FifoConsumption ==
    [][ (SaleCreated /\ LayersCover(last'.product, last'.quantity))
        => /\ LayersDecrementedFifo(last'.product, last'.quantity)
           /\ NewLine.unit_cost
                  = RoundDiv(TakenCost(last'.product, last'.quantity), last'.quantity)
           /\ 2 * Abs(NewLine.quantity * NewLine.unit_cost
                        - TakenCost(last'.product, last'.quantity))
                  <= Abs(last'.quantity) ]_vars

\* A sale of 3 units has emptied a layer of 2 and taken 1 from a layer of 3.
C3_Witness ==
    /\ last.op = "create_sale_item" /\ last.outcome = "created"
    /\ last.quantity = 3
    /\ \E l, m \in Layers :
           /\ l.product = last.product /\ m.product = last.product
           /\ Older(l, m)
           /\ l.original_quantity = 2 /\ l.quantity_remaining = 0
           /\ m.original_quantity = 3 /\ m.quantity_remaining = 2

----------------------------------------------------------------------------
(* C4 *)

ProductLayers(p) == {l \in Layers : l.product = p}
\* average_cost x total remaining = total remaining value, up to the rounding
\* of average_cost to cents; 0 when nothing remains.
AverageCostConsistentAfter(p) ==
    LET ls == {l \in LayersAfter : l.product = p}
        avg == product'[p].average_cost
        n == SumOver(ls, [l \in ls |-> l.quantity_remaining])
        v == SumOver(ls, [l \in ls |-> l.quantity_remaining * l.unit_cost])
    IN  IF n = 0 THEN avg = 0
        ELSE 2 * Abs(avg * n - v) <= Abs(n)

LayersMutated(p) ==
    {l \in LayersAfter : l.product = p} # ProductLayers(p)

\* C4: after every operation that mutates a product's cost layers (receipt,
\* FIFO consumption by a sale, allocation, restoration, purchase deletion),
\* average_cost x SUM(quantity_remaining) = SUM(quantity_remaining x unit_cost)
\* within the rounding of average_cost, and average_cost = 0 when nothing
\* remains.
C4_AverageCostInvariant ==
    [][ \A p \in Products : LayersMutated(p) => AverageCostConsistentAfter(p) ]_vars

----------------------------------------------------------------------------
(* C5 *)

ItemIds(pu) == {purchase_items[pu][i].id : i \in 1..Len(purchase_items[pu])}

\* C5: receiving a purchase and then deleting it, with nothing in between,
\* restores the stock of every product to its value before the receipt and
\* leaves none of the layers created from the purchase's lines.
C5_ReceiveDeleteRoundTrip ==
    [][ (/\ last.op = "receive" /\ last.outcome = "received"
         /\ last'.op = "delete_purchase" /\ last'.purchase = last.purchase)
        => /\ \A p \in Products : product'[p].current_stock = last.before[p]
           /\ \A l \in Layers :
                  l.purchase_item \in ItemIds(last.purchase)
                      => \A m \in LayersAfter : m.id # l.id ]_vars

----------------------------------------------------------------------------
(* C6 *)

DeletedLine == CHOOSE r \in {sale_items[i] : i \in 1..Len(sale_items)} : r.id = last'.id

\* The restoration cost of a line, in GTQ over RateScale.
LineRestorationCost(r) ==
    IF r.unit_cost > 0 THEN r.unit_cost * RateScale
    ELSE product[r.product].average_cost * rate

OneRestorationLayerAdded(r) ==
    /\ Len(cost_layers') = Len(cost_layers) + 1
    /\ SubSeq(cost_layers', 1, Len(cost_layers)) = cost_layers
    /\ LET n == cost_layers'[Len(cost_layers')]
       IN  /\ n.product = r.product
           /\ n.quantity_remaining = r.quantity
           /\ n.original_quantity = r.quantity
           /\ n.purchase_item = None
           /\ n.logistics_allocated = TRUE
           /\ n.unit_cost_gtq = RoundDiv(LineRestorationCost(r), RateScale)

StockRestored(r) ==
    product'[r.product].current_stock = product[r.product].current_stock + r.quantity

\* C6 (as stated): deleting a sale line of quantity q adds q to the stock and
\* creates exactly one layer (quantity_remaining = original_quantity = q, no
\* purchase line, logistics_allocated, unit_cost_gtq the restoration cost),
\* for every line, one whose restoration cost is zero included.
C6_DeletionAlwaysRestoresLayer ==
    [][ last'.op = "delete_sale_item"
        => StockRestored(DeletedLine) /\ OneRestorationLayerAdded(DeletedLine) ]_vars

\* C6 (amended): deleting a sale line of quantity q adds q to the stock; when
\* the restoration cost is positive it creates exactly one such layer, and
\* when the restoration cost is zero it creates none.  A deletion that would
\* leave the stock negative (q < 0) is refused and changes nothing.
C6_DeletionRestoresLayerIfCosted ==
    [][ last'.op = "delete_sale_item"
        => IF product[DeletedLine.product].current_stock + DeletedLine.quantity < 0
           THEN /\ last'.outcome = "IntegrityError"
                /\ UNCHANGED <<product, cost_layers, sale_items, ledger>>
           ELSE /\ last'.outcome = "deleted"
                /\ StockRestored(DeletedLine)
                /\ IF LineRestorationCost(DeletedLine) > 0
                   THEN OneRestorationLayerAdded(DeletedLine)
                   ELSE cost_layers' = cost_layers ]_vars

\* A line with a positive unit_cost was deleted and its layer is there.
C6_Witness ==
    /\ last.op = "delete_sale_item" /\ last.outcome = "deleted"
    /\ Len(cost_layers) > 0
    /\ LET n == cost_layers[Len(cost_layers)]
       IN  /\ n.purchase_item = None /\ n.logistics_allocated
           /\ n.product = last.product
           /\ n.quantity_remaining = last.quantity
           /\ n.unit_cost_gtq > 0
    /\ product[last.product].current_stock = last.before[last.product] + last.quantity

----------------------------------------------------------------------------
(* C7 *)

LineValue(item) == item.quantity * item.unit_cost
LinesValue(pu) ==
    SumTo([i \in 1..Len(purchase_items[pu]) |-> LineValue(purchase_items[pu][i])],
          Len(purchase_items[pu]))

\* The layer of a purchase line, before and after the step.
LineLayers(item) == {l \in Layers : l.purchase_item = item.id}
LineLayersAfter(item) == {l \in LayersAfter : l.purchase_item = item.id}

\* The step is a purchase update on which allocate_logistics_costs is called
\* and passes its three early returns.
AllocationRuns == last'.op = "save_purchase" /\ last'.outcome \notin {"saved", "False"}

\* C7: when AllocateLogistics runs on a received purchase with both real
\* costs set, nonzero logistics and every line's layer unallocated, each
\* line's layer gets allocated_logistics_per_unit =
\* (quantity x unit_cost / SUM(quantity x unit_cost)) x (shipping + taxes)
\* / quantity (stored in cents), whatever the discounts.
C7_ProportionalAllocation ==
    [][ \A pu \in PurchaseIds :
          (/\ AllocationRuns /\ last'.purchase = pu
           /\ LinesValue(pu) > 0
           /\ \A i \in 1..Len(purchase_items[pu]) :
                  /\ LineLayers(purchase_items[pu][i]) # {}
                  /\ \A l \in LineLayers(purchase_items[pu][i]) : ~l.logistics_allocated)
          => \A i \in 1..Len(purchase_items[pu]) :
                 \A l \in LineLayersAfter(purchase_items[pu][i]) :
                     l.allocated_logistics_per_unit =
                         RoundDiv(LineValue(purchase_items[pu][i])
                                      * (purchase'[pu].real_shipping + purchase'[pu].real_taxes),
                                  LinesValue(pu) * purchase_items[pu][i].quantity) ]_vars

----------------------------------------------------------------------------
(* C8 *)

----------------------------------------------------------------------------
(* C9 *)

AvailableValue(p) ==
    SumOver(Available(p), [l \in Available(p) |-> l.quantity_remaining * l.unit_cost_gtq])

\* C9: a sale line whose quantity is within the stock but exceeds what the
\* layers with quantity_remaining > 0 hold (none at all included) is not
\* rejected; the part the layers do not cover is costed at average_cost x
\* rate, so that the line's unit_cost is (value of the layers + shortfall x
\* average_cost x rate) / quantity, in cents.
C9_FallbackCosting ==
    [][ \A p \in Products : \A q \in SaleQuantities :
          (/\ last'.op = "create_sale_item" /\ last'.product = p /\ last'.quantity = q
           /\ q <= product[p].current_stock
           /\ AvailableQuantity(p) < q)
          => /\ last'.outcome = "created"
             /\ NewLine.product = p /\ NewLine.quantity = q
             /\ NewLine.unit_cost =
                    RoundDiv(AvailableValue(p) * RateScale
                                 + (q - AvailableQuantity(p)) * product[p].average_cost * rate,
                             q * RateScale) ]_vars

\* A sale of 3 was accepted on a stock of 3 of which the only layer held 2:
\* 2 units are costed from the layer and 1 at average_cost x rate.
C9_Witness ==
    /\ last.op = "create_sale_item" /\ last.outcome = "created"
    /\ last.quantity = 3 /\ last.before[last.product] = 3
    /\ product[last.product].average_cost > 0
    /\ \E l \in Layers :
           /\ l.product = last.product
           /\ l.original_quantity = 2 /\ l.quantity_remaining = 0
           /\ \A m \in Layers : m.product = last.product => m = l
           /\ sale_items[Len(sale_items)].unit_cost
                  = RoundDiv(2 * l.unit_cost_gtq * RateScale
                                 + product[last.product].average_cost * rate,
                             3 * RateScale)

----------------------------------------------------------------------------
(* C10 *)

LayerQuantitiesOk ==
    \A l \in Layers :
        0 <= l.quantity_remaining /\ l.quantity_remaining <= l.original_quantity

OriginalQuantityKept ==
    \A l \in Layers : \A m \in LayersAfter :
        m.id = l.id => m.original_quantity = l.original_quantity

\* C10: every cost layer has 0 <= quantity_remaining <= original_quantity in
\* every reachable state, and no step changes the original_quantity of a
\* layer that exists.
C10_LayerQuantities == []LayerQuantitiesOk /\ [][OriginalQuantityKept]_vars

----------------------------------------------------------------------------
(* C11 *)

\* C11: a sale-line creation whose quantity exceeds the product's
\* current_stock is rejected with an insufficient-stock error that carries
\* the available and the requested quantity, and has no partial effect: no
\* sale line is persisted and current_stock, the cost layers and the ledger
\* are unchanged.
C11_InsufficientStockRejected ==
    [][ (last'.op = "create_sale_item"
         /\ last'.quantity > product[last'.product].current_stock)
        => /\ last'.outcome = "insufficient_stock"
           /\ last'.detail.message = "Insufficient stock"
           /\ last'.detail.available = product[last'.product].current_stock
           /\ last'.detail.requested = last'.quantity
           /\ UNCHANGED <<product, cost_layers, sale_items, ledger, next_id>> ]_vars

\* 4 units were asked of a product that had 3 in stock and layers to take
\* them from; the request was refused.
C11_Witness ==
    /\ last.op = "create_sale_item" /\ last.outcome = "insufficient_stock"
    /\ last.quantity = 4 /\ last.before[last.product] = 3
    /\ last.detail = InsufficientStock(3, 4)
    /\ Available(last.product) # {}

----------------------------------------------------------------------------
(* C12 *)

\* Worker i answers a sale-line creation in this step: its transaction ends.
SaleAnswered(i) ==
    /\ procs[i].op = "create_sale_item"
    /\ procs[i].pc # "idle" /\ procs'[i].pc = "idle"

\* C12: sale fulfilment is all-or-nothing in what the other requests can
\* see.  The step that makes a new sale line of quantity q visible also
\* makes visible its stock decrement of q, its FIFO layer decrements and
\* its 'sale' ledger entry; a creation that is answered with anything but
\* success leaves stock, layers, lines and ledger as they were; and no other
\* step adds a sale line.
C12_SaleAllOrNothing ==
    [][ /\ \A i \in Procs :
              SaleAnswered(i)
              => LET p == procs[i].product
                     q == procs[i].quantity
                 IN  IF procs'[i].outcome = "created"
                     THEN /\ Len(sale_items') = Len(sale_items) + 1
                          /\ SubSeq(sale_items', 1, Len(sale_items)) = sale_items
                          /\ NewLine.product = p /\ NewLine.quantity = q
                          /\ product'[p].current_stock = product[p].current_stock - q
                          /\ LayersDecrementedFifo(p, q)
                          /\ ledger' = Append(ledger,
                                              Txn(p, "sale", -q,
                                                  product'[p].current_stock, SaleId))
                     ELSE UNCHANGED <<product, cost_layers, sale_items, ledger>>
        /\ Len(sale_items') > Len(sale_items)
               => \E i \in Procs : SaleAnswered(i) /\ procs'[i].outcome = "created"
      ]_vars

\* A sale of 3 units, served while another request was being served, is
\* committed: its line, its ledger entry and the stock agree.
C12_Witness ==
    \E i \in Procs :
        /\ SaleDone(i) /\ procs[i].outcome = "created" /\ procs[i].overlapped
        /\ procs[i].quantity = 3
        /\ Len(sale_items) > 0 /\ Len(ledger) > 0
        /\ sale_items[Len(sale_items)].product = procs[i].product
        /\ sale_items[Len(sale_items)].quantity = 3
        /\ ledger[Len(ledger)] =
               Txn(procs[i].product, "sale", -3,
                   product[procs[i].product].current_stock, SaleId)
        /\ \E l \in Layers :
               l.product = procs[i].product /\ l.quantity_remaining < l.original_quantity

----------------------------------------------------------------------------
(* C13 *)

\* Workers i and j have committed two sale lines for one product: i's request arrived when no request was being served, j's
\* arrived next, while i's was being served, and none has arrived since.
ConcurrentCommittedSales(i, j) ==
    /\ SaleDone(i) /\ SaleDone(j)
    /\ procs[i].product = procs[j].product
    /\ ~procs[i].joined
    /\ procs[j].seq = procs[i].seq + 1 /\ procs[j].joined
    /\ nops = procs[j].seq
    /\ procs[i].outcome = "created" /\ procs[j].outcome = "created"

\* What a sale of quantity q asks of the layers.
Needed(q) == IF q > 0 THEN q ELSE 0

\* C13: under any interleaving of two concurrent sale-line creations on one
\* product no unit of a layer is consumed twice: what the layers have lost
\* is what the two sales took between them, each from what the other had
\* left (the quantities sold, as far as the layers held them).
C13_NoDoubleConsumption ==
    \A i, j \in Procs :
        ConcurrentCommittedSales(i, j)
        => LET sold == Needed(procs[i].quantity) + Needed(procs[j].quantity)
           IN  /\ procs[j].held = procs[i].held
               /\ AvailableQuantity(procs[i].product)
                      = procs[i].held - Min(sold, procs[i].held)
               /\ \A l \in Available(procs[i].product) :
                      l.quantity_remaining <= l.original_quantity

\* Two concurrent sales of 3 units are both committed on layers that held 5:
\* the second one found 2 units left.
C13_Witness ==
    \E i, j \in Procs :
        /\ ConcurrentCommittedSales(i, j)
        /\ procs[i].quantity = 3 /\ procs[j].quantity = 3
        /\ procs[i].held = 5
        /\ AvailableQuantity(procs[i].product) = 0

----------------------------------------------------------------------------
(* C14 *)

\* The units of product p on the lines of purchase pu.
ReceivedQuantity(pu, p) ==
    SumTo([k \in 1..Len(purchase_items[pu]) |->
              IF purchase_items[pu][k].product = p
              THEN purchase_items[pu][k].quantity ELSE 0],
          Len(purchase_items[pu]))

\* Workers i and j have served requests that ran concurrently: one arrived
\* when no request was being served, the other arrived next, while the first
\* was being served, and none has arrived since.
RanConcurrently(i, j) ==
    /\ i # j
    /\ procs[i].pc = "idle" /\ procs[j].pc = "idle"
    /\ \/ /\ ~procs[i].joined /\ procs[j].joined /\ procs[j].seq = procs[i].seq + 1
          /\ nops = procs[j].seq
       \/ /\ ~procs[j].joined /\ procs[i].joined /\ procs[i].seq = procs[j].seq + 1
          /\ nops = procs[i].seq

\* C14: a purchase receipt (worker i) and a sale-line creation (worker j)
\* that run concurrently on one product and both succeed lose no update: the
\* stock ends at the initial stock plus the received quantity less the sold
\* quantity.
C14_ReceiptAndSaleKeepStock ==
    \A i, j \in Procs :
        (/\ RanConcurrently(i, j)
         /\ procs[i].op = "receive" /\ procs[i].outcome = "received"
         /\ procs[j].op = "create_sale_item" /\ procs[j].outcome = "created"
         /\ ReceivedQuantity(procs[i].purchase, procs[j].product) > 0)
        => product[procs[j].product].current_stock
               = procs[j].before
                   + ReceivedQuantity(procs[i].purchase, procs[j].product)
                   - procs[j].quantity

\* The receipt of 3 units and a sale of 3 units ran concurrently on a stock
\* of 5, and the stock is 8: the sale's decrement is lost.
C14_LostSale ==
    \E i, j \in Procs :
        /\ RanConcurrently(i, j)
        /\ procs[i].op = "receive" /\ procs[i].outcome = "received"
        /\ procs[j].op = "create_sale_item" /\ procs[j].outcome = "created"
        /\ procs[j].quantity = 3 /\ procs[j].before = 5
        /\ ReceivedQuantity(procs[i].purchase, procs[j].product) = 3
        /\ product[procs[j].product].current_stock = 8

----------------------------------------------------------------------------
(* C15 *)

\* The stock a request leaves when it is served alone on a given stock: a
\* sale of q units, the deletion of a sale line of r units, the deletion of
\* a received purchase with one line of n units of the product.
StockAfterSale(stock, q) == IF q > stock THEN stock ELSE stock - q
StockAfterLineDeletion(stock, r) == IF stock + r < 0 THEN stock ELSE stock + r
StockAfterPurchaseDeletion(stock, n) == IF stock - n < 0 THEN 0 ELSE stock - n

\* Purchase pu has exactly one line for product p.
OneLineOf(pu, p) ==
    Cardinality({k \in 1..Len(purchase_items[pu]) :
                    purchase_items[pu][k].product = p}) = 1

\* C15: a reversal (worker i: the deletion of a sale line, or of a received
\* purchase) and a sale-line creation (worker j) that run concurrently on one
\* product leave the stock that one of the two serial orders leaves.
C15_ReversalAndSaleSerial ==
    \A i, j \in Procs :
        (RanConcurrently(i, j) /\ procs[j].op = "create_sale_item")
        => LET p == procs[j].product
               q == procs[j].quantity
               b == procs[j].before
               pu == procs[i].purchase
           IN  /\ (procs[i].op = "delete_sale_item" /\ procs[i].product = p)
                   => product[p].current_stock \in
                          { StockAfterLineDeletion(StockAfterSale(b, q),
                                                   procs[i].quantity),
                            StockAfterSale(StockAfterLineDeletion(b, procs[i].quantity),
                                           q) }
               /\ (/\ procs[i].op = "delete_purchase" /\ procs[i].status = "received"
                    /\ OneLineOf(pu, p))
                   => product[p].current_stock \in
                          { StockAfterPurchaseDeletion(StockAfterSale(b, q),
                                                       ReceivedQuantity(pu, p)),
                            StockAfterSale(
                                StockAfterPurchaseDeletion(b, ReceivedQuantity(pu, p)),
                                q) }

\* A sale line of 3 units was deleted while a sale of 3 units was created, on
\* a stock of 3, and the stock is 6: the sale's decrement is overwritten
\* (three requests: the sale whose line is deleted comes first).
C15_LostSale ==
    \E i, j \in Procs :
        /\ RanConcurrently(i, j)
        /\ procs[i].op = "delete_sale_item" /\ procs[i].outcome = "deleted"
        /\ procs[i].quantity = 3
        /\ procs[j].op = "create_sale_item" /\ procs[j].outcome = "created"
        /\ procs[j].quantity = 3 /\ procs[j].before = 3
        /\ procs[i].product = procs[j].product
        /\ product[procs[j].product].current_stock = 6

----------------------------------------------------------------------------
(* C16 *)

\* The step saves purchase pu and the save calls allocate_logistics_costs.
AllocationTriggered(pu) ==
    last'.op = "save_purchase" /\ last'.purchase = pu /\ last'.outcome # "saved"

\* C16: a save of an existing purchase triggers logistics allocation exactly
\* when the saved status is 'received', the stored row has real_shipping or
\* real_taxes null and the saved row has both; in particular a later save of
\* a purchase whose stored real costs are both present triggers none.
C16_AllocationTrigger ==
    [][ \A pu \in PurchaseIds :
          (last'.op = "save_purchase" /\ last'.purchase = pu)
          => (AllocationTriggered(pu)
                <=> /\ purchase'[pu].status = "received"
                    /\ (purchase[pu].real_shipping = None
                           \/ purchase[pu].real_taxes = None)
                    /\ purchase'[pu].real_shipping # None
                    /\ purchase'[pu].real_taxes # None) ]_vars

\* A received purchase whose real costs were both stored has been saved
\* with other real costs, and no allocation was triggered.
C16_Witness ==
    /\ last.op = "save_purchase" /\ last.outcome = "saved"
    /\ purchase[last.purchase].status = "received"
    /\ purchase[last.purchase].real_shipping = 0
    /\ purchase[last.purchase].real_taxes = 0
    /\ \E l \in Layers : l.purchase_item \in ItemIds(last.purchase)

----------------------------------------------------------------------------
(* C17 *)

\* A real cost of the row is null, the real costs sum to zero, or the total
\* product cost of the purchase is zero.
NothingToAllocate(row, pu) ==
    \/ row.real_shipping = None \/ row.real_taxes = None
    \/ row.real_shipping + row.real_taxes = 0
    \/ ProductCost(purchase_items[pu]) = 0

----------------------------------------------------------------------------
(* C18 *)

LayerIds == {l.id : l \in Layers}

\* C18: a change of the exchange rate leaves every stored row but the
\* settings as it is, in particular unit_cost_gtq of every cost layer and
\* unit_cost of every sale line; average_cost_gtq, converted on read, is the
\* stored average_cost at the new rate, and a layer a later receipt creates
\* has unit_cost_gtq = unit_cost x the rate stored at the receipt.
C18_RateChangeKeepsSnapshots ==
    [][ /\ last'.op = "update_settings"
           => /\ rate' # rate
              /\ UNCHANGED <<product, purchase, cost_layers, sale_items, ledger>>
              /\ \A p \in Products :
                     AverageCostGtq(DB', p) = product[p].average_cost * rate'
        /\ last'.op = "receive"
           => \A l \in LayersAfter :
                  IF l.id \in LayerIds
                  THEN \E m \in Layers : m.id = l.id /\ m.unit_cost_gtq = l.unit_cost_gtq
                  ELSE l.unit_cost_gtq = RoundDiv(l.base_unit_cost * rate, RateScale) ]_vars

\* Two layers received at the same USD unit cost, one before and one after
\* a change of the rate, hold different unit_cost_gtq.
C18_Witness ==
    /\ last.op = "receive" /\ rate # DefaultRate
    /\ \E l, m \in Layers :
           /\ l.base_unit_cost = m.base_unit_cost
           /\ l.unit_cost_gtq = RoundDiv(l.base_unit_cost * DefaultRate, RateScale)
           /\ m.unit_cost_gtq = RoundDiv(m.base_unit_cost * rate, RateScale)
           /\ l.unit_cost_gtq # m.unit_cost_gtq

----------------------------------------------------------------------------
(* C19 *)

\* C19: saving an existing sale line, with a changed quantity or not, leaves
\* its unit_cost as stored, every cost layer, every product's current_stock
\* and average_cost and the ledger unchanged; an accepted save stores the
\* new quantity on that line and nothing else.
C19_EditKeepsCostAndStock ==
    [][ last'.op = "update_sale_item"
        => /\ UNCHANGED <<product, cost_layers, ledger, next_id, rate, purchase>>
           /\ Len(sale_items') = Len(sale_items)
           /\ \A i \in 1..Len(sale_items) :
                  IF sale_items[i].id = last'.id /\ last'.outcome = "updated"
                  THEN sale_items'[i] =
                           [sale_items[i] EXCEPT !.quantity = last'.quantity]
                  ELSE sale_items'[i] = sale_items[i] ]_vars

\* A line sold as 3 units from layers has been saved with quantity 2: the
\* ledger still shows the 3 units taken and the stock is what the sale left.
C19_Witness ==
    /\ last.op = "update_sale_item" /\ last.outcome = "updated"
    /\ \E i \in 1..Len(sale_items) :
           /\ sale_items[i].id = last.id
           /\ sale_items[i].quantity = 2
           /\ sale_items[i].unit_cost > 0
           /\ \E k \in 1..Len(ledger) :
                  /\ ledger[k].transaction_type = "sale"
                  /\ ledger[k].product = sale_items[i].product
                  /\ ledger[k].quantity_change = -3
                  /\ ledger[k].quantity_after = product[sale_items[i].product].current_stock

----------------------------------------------------------------------------
(* C20 *)

\* The step deletes a purchase whose status is not 'received'.
NonReceivedPurchaseDeleted ==
    last'.op = "delete_purchase" /\ last'.outcome # "received"

----------------------------------------------------------------------------
(* C21 *)

\* The rows the next statement of worker i locks: it waits while another
\* worker holds one of them.
WantedRows(i) ==
    LET me == procs[i]
    IN  IF me.pc \in {"sale_begin", "sale_save", "del_sale_write"}
        THEN {ProductLock(me.product)}
        ELSE IF me.pc = "del_sale_delete" THEN {SaleItemLock(me.row.id)}
        ELSE IF me.pc = "recv_save" THEN {PurchaseLock(me.purchase)}
        ELSE IF me.pc = "recv_write"
        THEN {ProductLock(Head(me.todo).product), PurchaseItemLock(Head(me.todo).id)}
        ELSE IF me.pc = "del_purchase_write"
        THEN {ProductLock(Head(me.todo).item.product)}
        ELSE IF me.pc = "del_purchase_row"
        THEN {PurchaseItemLock(id) : id \in StoredItemIds(me.purchase)}
                 \cup {PurchaseLock(me.purchase)}
        ELSE {}

Busy(i) == procs[i].pc # "idle"
Waiting(i) == \E row \in WantedRows(i) : ~CanLock(i, row)

HoldsProduct(i, p) == [row |-> ProductLock(p), holder |-> i] \in locks

\* Worker i waits for the row of product p, which worker j has locked.
WaitsForProduct(i, p, j) ==
    i # j /\ ProductLock(p) \in WantedRows(i) /\ HoldsProduct(j, p)

\* C21: no deadlock.  Whatever sales, receipts of purchases of several
\* products, purchase deletions and sale-line deletions are served at the
\* same time, one of them can always go on, so that all of them complete:
\* there is no state in which every request being served waits for a row
\* another one has locked.
C21_NoDeadlock ==
    (\E i \in Procs : Busy(i)) => \E i \in Procs : Busy(i) /\ ~Waiting(i)

\* The reason C21 gives: no request holds a lock or an uncommitted write on
\* the row of one product while it waits for the row of another product.
C21_OneProductAtATime ==
    \A i, j \in Procs : \A p, q \in Products :
        (WaitsForProduct(i, p, j) /\ q # p) => ~HoldsProduct(i, q)

\* Two requests wait for each other's product: a receipt and a purchase
\* deletion that go through the lines of two products in opposite orders.
C21_ProductDeadlock ==
    \E i, j \in Procs : \E p, q \in Products :
        /\ p # q
        /\ WaitsForProduct(i, p, j) /\ HoldsProduct(i, q)
        /\ WaitsForProduct(j, q, i) /\ HoldsProduct(j, p)

\* A receipt and the deletion of the same purchase wait for each other: the
\* receipt has locked the purchase and waits for a line, the deletion has
\* locked the lines and waits for the purchase.
C21_PurchaseDeadlock ==
    \E i, j \in Procs :
        /\ i # j /\ procs[i].pc = "recv_write" /\ procs[j].pc = "del_purchase_row"
        /\ procs[i].purchase = procs[j].purchase
        /\ Waiting(i) /\ Waiting(j)

----------------------------------------------------------------------------
(* C22 *)

\* The step receives purchase pu.
Received(pu) ==
    last'.op = "receive" /\ last'.purchase = pu /\ last'.outcome = "received"

\* The ledger entries the step appends, in the order it appends them.
Appended == SubSeq(ledger', Len(ledger) + 1, Len(ledger'))

\* The layer a receipt at the current rate creates for a line.
LayerOfLine(l, item) ==
    /\ l.product = item.product /\ l.purchase_item = item.id
    /\ l.base_unit_cost = item.unit_cost /\ l.unit_cost = item.unit_cost
    /\ l.unit_cost_gtq = RoundDiv(item.unit_cost * rate, RateScale)
    /\ l.allocated_logistics_per_unit = 0 /\ ~l.logistics_allocated
    /\ l.quantity_remaining = item.quantity
    /\ l.original_quantity = item.quantity

\* C22: receiving a purchase that is not yet received creates exactly one
\* cost layer per line, linked to the line, with base_unit_cost = unit_cost
\* = line.unit_cost, unit_cost_gtq = line.unit_cost x the current rate (in
\* cents), quantity_remaining = original_quantity = line.quantity and
\* logistics_allocated false, and leaves the other layers alone; it adds the
\* quantity of every line to the current_stock of its product and appends
\* one 'purchase' ledger entry per line, whose quantity_after is the stock
\* of the product once that line is counted.
C22_ReceiptCreatesLayers ==
    [][ \A pu \in PurchaseIds :
          Received(pu)
          => LET its == purchase_items[pu]
                 n == Len(its)
             IN  /\ purchase'[pu].status = "received"
                 /\ SubSeq(cost_layers', 1, Len(cost_layers)) = cost_layers
                 /\ Len(cost_layers') = Len(cost_layers) + n
                 /\ \A k \in 1..n :
                        Cardinality({l \in LayersAfter \ Layers :
                                        LayerOfLine(l, its[k])}) = 1
                 /\ \A p \in Products :
                        product'[p].current_stock
                            = product[p].current_stock + ReceivedQuantity(pu, p)
                 /\ SubSeq(ledger', 1, Len(ledger)) = ledger
                 /\ Len(ledger') = Len(ledger) + n
                 /\ \E f \in [1..n -> 1..n] :
                        /\ \A j, k \in 1..n : j # k => f[j] # f[k]
                        /\ \A k \in 1..n :
                               Appended[k] =
                                   Txn(its[f[k]].product, "purchase",
                                       its[f[k]].quantity,
                                       product[its[f[k]].product].current_stock
                                         + SumTo([j \in 1..k |->
                                                     IF its[f[j]].product = its[f[k]].product
                                                     THEN its[f[j]].quantity ELSE 0], k),
                                       pu) ]_vars

\* A purchase with two lines of one product has been received: two layers,
\* the stock raised by both lines, and two ledger entries of which the
\* first shows the stock after one line and the second after both.
C22_Witness ==
    /\ last.op = "receive" /\ last.outcome = "received"
    /\ \E p \in Products : \E j, k \in 1..Len(ledger) :
           /\ j < k
           /\ ledger[j].product = p /\ ledger[k].product = p
           /\ ledger[j].reference_id = last.purchase
           /\ ledger[k].reference_id = last.purchase
           /\ ledger[j].transaction_type = "purchase"
           /\ ledger[k].transaction_type = "purchase"
           /\ ledger[k].quantity_after = ledger[j].quantity_after + ledger[k].quantity_change
           /\ product[p].current_stock = ledger[k].quantity_after
           /\ Cardinality({l \in Layers : l.product = p
                              /\ l.purchase_item \in ItemIds(last.purchase)}) = 2

----------------------------------------------------------------------------
(* C23 *)

\* The lines of all purchases.
AllLines ==
    UNION {{purchase_items[pu][k] : k \in 1..Len(purchase_items[pu])} :
              pu \in PurchaseIds}

\* C23: a receive request on a purchase whose status is 'received' is
\* rejected and changes nothing, so that, requests being served one at a
\* time, no purchase line ever has more than one cost layer created from it
\* (it has contributed its quantity to current_stock at most once).
C23_LineReceivedOnce ==
    [][ /\ \A pu \in PurchaseIds :
              (last'.op = "receive" /\ last'.purchase = pu
                 /\ purchase[pu].status = "received")
              => /\ last'.outcome = "already_received"
                 /\ UNCHANGED <<rate, product, purchase, cost_layers, sale_items,
                                ledger, next_id>>
        /\ \A item \in AllLines :
              Cardinality({l \in LayersAfter : l.purchase_item = item.id}) <= 1 ]_vars

\* A purchase was received, its status changed, and it was received again:
\* its line has two layers and the stock counts it twice.
C23_ReceivedTwice ==
    /\ last.op = "receive" /\ last.outcome = "received"
    /\ \E item \in AllLines :
           /\ Cardinality({l \in Layers : l.purchase_item = item.id}) = 2
           /\ product[item.product].current_stock >= 2 * item.quantity

----------------------------------------------------------------------------
(* C24 *)

\* Workers i and j have served two receive requests for purchase pu that
\* ran concurrently.
ConcurrentReceipts(i, j, pu) ==
    /\ RanConcurrently(i, j)
    /\ procs[i].op = "receive" /\ procs[j].op = "receive"
    /\ procs[i].purchase = pu /\ procs[j].purchase = pu

\* The units of product p the ledger shows as received with purchase pu.
LedgerReceived(pu, p) ==
    SumTo([k \in 1..Len(ledger) |->
              IF /\ ledger[k].transaction_type = "purchase"
                 /\ ledger[k].reference_id = pu /\ ledger[k].product = p
              THEN ledger[k].quantity_change ELSE 0],
          Len(ledger))

\* C24: after two concurrent receive requests for the same pending purchase
\* have both finished, the quantity of each line has been added once (the
\* ledger shows each product's lines received once) and each line has
\* exactly one cost layer.
C24_ConcurrentReceiptOnce ==
    \A i, j \in Procs : \A pu \in PurchaseIds :
        (ConcurrentReceipts(i, j, pu) /\ Exists(pu))
        => /\ \A k \in 1..Len(purchase_items[pu]) :
                  Cardinality({l \in Layers :
                                  l.purchase_item = purchase_items[pu][k].id}) = 1
           /\ \A p \in Products : LedgerReceived(pu, p) = ReceivedQuantity(pu, p)

\* Both requests answered 'received': every line has two layers.
C24_ReceivedTwice ==
    \E i, j \in Procs : \E pu \in PurchaseIds :
        /\ ConcurrentReceipts(i, j, pu)
        /\ procs[i].outcome = "received" /\ procs[j].outcome = "received"
        /\ \A k \in 1..Len(purchase_items[pu]) :
               Cardinality({l \in Layers :
                               l.purchase_item = purchase_items[pu][k].id}) = 2
        /\ \A p \in Products : LedgerReceived(pu, p) = 2 * ReceivedQuantity(pu, p)

----------------------------------------------------------------------------
(* C25 *)

\* C25: in every reachable state every cost layer has unit_cost =
\* base_unit_cost + allocated_logistics_per_unit, whether a receipt or the
\* deletion of a sale line created it and whatever purchase updates have
\* called the logistics allocation since.
C25_UnitCostIsBasePlusLogistics ==
    \A l \in Layers : l.unit_cost = l.base_unit_cost + l.allocated_logistics_per_unit

\* A layer created by a receipt and a layer created by the deletion of a
\* sale line, both with a positive unit cost.
C25_Witness ==
    /\ last.op = "delete_sale_item" /\ last.outcome = "deleted"
    /\ \E l, m \in Layers :
           /\ l.purchase_item # None /\ l.unit_cost > 0
           /\ m.purchase_item = None /\ m.logistics_allocated /\ m.unit_cost > 0

----------------------------------------------------------------------------
(* C26 *)

\* C26: a layer whose logistics_allocated is true keeps it true, and keeps
\* its allocated_logistics_per_unit and its unit_cost, through every later
\* request that leaves the layer in the table: purchase updates that enter,
\* clear or re-enter the real costs, sales that take from it, deletions.
C26_AllocationIsOneShot ==
    [][\A l \in Layers : l.logistics_allocated =>
          \A m \in Layers' : m.id = l.id =>
              /\ m.logistics_allocated
              /\ m.allocated_logistics_per_unit = l.allocated_logistics_per_unit
              /\ m.unit_cost = l.unit_cost]_vars

\* A sale has just taken units from a layer whose logistics_allocated is
\* true.
C26_Witness ==
    /\ last.op = "create_sale_item" /\ last.outcome = "created"
    /\ \E l \in Layers :
           /\ l.logistics_allocated /\ l.unit_cost > 0
           /\ l.product = last.product
           /\ l.quantity_remaining < l.original_quantity

\* A purchase update that entered both real costs of a received purchase
\* has been served while a layer with logistics_allocated true was stored.
C26_SavedWithAllocatedLayer ==
    /\ last.op = "save_purchase"
    /\ purchase[last.purchase].status = "received"
    /\ purchase[last.purchase].real_shipping # None
    /\ purchase[last.purchase].real_taxes # None
    /\ \E l \in Layers : l.logistics_allocated

----------------------------------------------------------------------------
(* C27 *)

\* C27: when logistics are allocated to a layer, its unit_cost_gtq becomes the
\* new unit_cost (base + allocated logistics) x the current rate: for every
\* unallocated layer of a line of a received purchase that has real costs to
\* allocate, the update of that layer by allocate_logistics_costs leaves it
\* with unit_cost_gtq = unit_cost x rate, the cost calculate_fifo_cost reads.
C27_GtqResnapshotted ==
    \A pu \in PurchaseIds : \A i \in 1..Len(purchase_items[pu]) :
        LET item == purchase_items[pu][i]
            row == purchase[pu]
        IN  (row.status = "received" /\ ~NothingToAllocate(row, pu))
            => \A l \in LineLayers(item) : ~l.logistics_allocated =>
                   LET after == AllocateToLayer(DB, item, l,
                                    ProductCost(purchase_items[pu]),
                                    row.real_shipping + row.real_taxes).cost_layers
                   IN  \A k \in 1..Len(after) : after[k].id = l.id =>
                           after[k].unit_cost_gtq
                               = RoundDiv(after[k].unit_cost * rate, RateScale)

\* A purchase update has entered both real costs of a received purchase, and
\* a layer of one of its lines with a positive share of them still has the
\* unit_cost_gtq of its receipt.
C27_LogisticsNotInGtq ==
    /\ last.op = "save_purchase" /\ last.outcome \notin {"saved", "False"}
    /\ \E i \in 1..Len(purchase_items[last.purchase]) :
           \E l \in LineLayers(purchase_items[last.purchase][i]) :
               /\ LineValue(purchase_items[last.purchase][i]) > 0
               /\ l.unit_cost_gtq = RoundDiv(l.base_unit_cost * rate, RateScale)

----------------------------------------------------------------------------
(* C28 *)

\* C28: when allocate_logistics_costs runs past its early returns on a
\* purchase one of whose lines has no cost layer, that line is skipped
\* without an error (the call returns True) and every layer of the other
\* lines that was unallocated is allocated by the same call.
C28_LineWithoutLayerSkipped ==
    [][ \A pu \in PurchaseIds :
          (/\ AllocationTriggered(pu)
           /\ ~NothingToAllocate(purchase'[pu], pu)
           /\ \E i \in 1..Len(purchase_items[pu]) :
                  LineLayers(purchase_items[pu][i]) = {})
          => /\ last'.outcome = "True"
             /\ \A i \in 1..Len(purchase_items[pu]) :
                    \A l \in LineLayersAfter(purchase_items[pu][i]) :
                        l.logistics_allocated ]_vars

\* A purchase update that calls the allocation on a purchase with a line
\* without a layer has ended in an AttributeError.
C28_MissingLayerRaises ==
    /\ last.op = "save_purchase" /\ last.outcome = "AttributeError"
    /\ \E i \in 1..Len(purchase_items[last.purchase]) :
           LineLayers(purchase_items[last.purchase][i]) = {}

----------------------------------------------------------------------------
(* C29 *)

\* C29: between requests, every cost layer linked to a line of a purchase
\* that is 'received' and has both real costs, with a nonzero sum and a
\* nonzero product cost, has logistics_allocated true, in whichever order
\* the purchase was received and its real costs were entered.
C29_ReceivedWithCostsAllocated ==
    \A pu \in PurchaseIds :
        (purchase[pu].status = "received" /\ ~NothingToAllocate(purchase[pu], pu))
        => \A i \in 1..Len(purchase_items[pu]) :
               \A l \in LineLayers(purchase_items[pu][i]) : l.logistics_allocated

\* Real costs entered after the receipt: the update that entered them has
\* called the allocation and the layers are still unallocated.
C29_CostsAfterReceipt ==
    /\ last.op = "save_purchase" /\ last.outcome = "AttributeError"
    /\ \E i \in 1..Len(purchase_items[last.purchase]) :
           \E l \in LineLayers(purchase_items[last.purchase][i]) :
               ~l.logistics_allocated

\* Real costs entered before the receipt: the receipt has created the
\* layers of a purchase that has real costs to allocate, unallocated.
C29_CostsBeforeReceipt ==
    /\ last.op = "receive" /\ last.outcome = "received"
    /\ ~NothingToAllocate(purchase[last.purchase], last.purchase)
    /\ \E i \in 1..Len(purchase_items[last.purchase]) :
           \E l \in LineLayers(purchase_items[last.purchase][i]) :
               ~l.logistics_allocated

----------------------------------------------------------------------------
(* C30 *)

\* What the lines of purchase pu hold of product p.
LinesQuantity(pu, p) ==
    SumTo([i \in 1..Len(purchase_items[pu]) |->
              IF purchase_items[pu][i].product = p
              THEN purchase_items[pu][i].quantity ELSE 0],
          Len(purchase_items[pu]))

\* The step deletes purchase pu, which was received.
DeletesReceived(pu) ==
    /\ last'.op = "delete_purchase" /\ last'.purchase = pu
    /\ purchase[pu].status = "received"

\* Every layer of a line of pu is gone after the step.
LineLayersDeleted(pu) ==
    \A l \in Layers : l.purchase_item \in ItemIds(pu)
        => \A m \in LayersAfter : m.id # l.id

\* C30: the deletion of a received purchase succeeds; line after line the
\* stock of the line's product becomes max(0, stock - line.quantity), so
\* that each product ends at max(0, stock - the quantity of the purchase's
\* lines of it), also when sales have left the stock below that quantity;
\* and every layer of the purchase's lines is deleted, whatever its
\* quantity_remaining.
C30_DeleteReceivedPurchase ==
    [][ \A pu \in PurchaseIds : DeletesReceived(pu)
          => /\ purchase'[pu].status = "deleted"
             /\ \A p \in Products :
                    product'[p].current_stock
                        = ClampStock(product[p].current_stock - LinesQuantity(pu, p))
             /\ LineLayersDeleted(pu) ]_vars

\* The same for the purchases with at most one line of each product.
C30_OneLinePerProduct ==
    [][ \A pu \in PurchaseIds :
          (/\ DeletesReceived(pu)
           /\ \A i, j \in 1..Len(purchase_items[pu]) :
                  purchase_items[pu][i].product = purchase_items[pu][j].product
                      => i = j)
          => /\ purchase'[pu].status = "deleted"
             /\ \A p \in Products :
                    product'[p].current_stock
                        = ClampStock(product[p].current_stock - LinesQuantity(pu, p))
             /\ LineLayersDeleted(pu) ]_vars

\* A received purchase has been deleted when the stock of a product was
\* below the quantity of its line and a layer of that line still held units:
\* the stock is 0 and the layer is gone.
C30_ClampedDeletion ==
    /\ last.op = "delete_purchase" /\ last.outcome = "received"
    /\ purchase[last.purchase].status = "deleted"
    /\ \E p \in Products :
           /\ 0 < last.before[p]
           /\ last.before[p] < LinesQuantity(last.purchase, p)
           /\ product[p].current_stock = 0
           /\ \A l \in Layers : l.purchase_item \notin ItemIds(last.purchase)

----------------------------------------------------------------------------
(* C31 *)

\* The ledger without the 'purchase' entries of purchase pu.
WithoutReceipts(pu) ==
    SelectSeq(ledger, LAMBDA t : ~(t.transaction_type = "purchase"
                                     /\ t.reference_id = pu))

\* The entries the deletion of pu appends.
ReversalEntries(pu) ==
    SubSeq(ledger', Len(WithoutReceipts(pu)) + 1, Len(ledger'))

\* C31 as stated: the deletion of a received purchase appends exactly one
\* 'adjustment' entry for each product a line of the purchase is of, and
\* none for any other product; the entry's quantity_after is the
\* current_stock of the product after the deletion.
C31_OneAdjustmentPerProduct ==
    [][ \A pu \in PurchaseIds : DeletesReceived(pu)
          => LET new == ReversalEntries(pu)
             IN  /\ SubSeq(ledger', 1, Len(WithoutReceipts(pu))) = WithoutReceipts(pu)
                 /\ \A p \in Products :
                        Cardinality({k \in 1..Len(new) : new[k].product = p})
                            = IF LinesQuantity(pu, p) > 0 THEN 1 ELSE 0
                 /\ \A k \in 1..Len(new) :
                        /\ new[k].transaction_type = "adjustment"
                        /\ new[k].quantity_after
                               = product'[new[k].product].current_stock ]_vars

\* C31 (amended): the deletion of a received purchase appends exactly one
\* 'adjustment' entry per line of the purchase, two for a product with two
\* lines, each with quantity_change = -line.quantity, the purchase as its
\* reference and quantity_after = the current_stock of the line's product
\* after all the stock writes of the deletion.
C31_OneAdjustmentPerLine ==
    [][ \A pu \in PurchaseIds : DeletesReceived(pu)
          => /\ SubSeq(ledger', 1, Len(WithoutReceipts(pu))) = WithoutReceipts(pu)
             /\ \E its \in ItemOrders(pu) :
                    ReversalEntries(pu)
                        = [k \in 1..Len(its) |->
                              Txn(its[k].product, "adjustment", -its[k].quantity,
                                  product'[its[k].product].current_stock, pu)] ]_vars

\* A received purchase with two lines of one product has been deleted and
\* the ledger holds two adjustment entries of it for that product.
C31_Witness ==
    /\ last.op = "delete_purchase" /\ last.outcome = "received"
    /\ \E j, k \in 1..Len(ledger) :
           /\ j < k
           /\ ledger[j].transaction_type = "adjustment"
           /\ ledger[k].transaction_type = "adjustment"
           /\ ledger[j].reference_id = last.purchase
           /\ ledger[k].reference_id = last.purchase
           /\ ledger[j].product = ledger[k].product
           /\ ledger[j].quantity_after = product[ledger[j].product].current_stock
           /\ ledger[k].quantity_after = product[ledger[k].product].current_stock

----------------------------------------------------------------------------
(* C32 *)

\* The 'sale' entries of the ledger a line of product p and quantity q of
\* sale sale has appended, by their positions.
SaleEntries(p, q, sale) ==
    {k \in 1..Len(ledger) :
        /\ ledger[k].product = p /\ ledger[k].transaction_type = "sale"
        /\ ledger[k].reference_id = sale /\ ledger[k].quantity_change = -q}

\* The stored lines of product p and quantity q of sale sale.
SaleLines(p, q, sale) ==
    {i \in 1..Len(sale_items) :
        /\ sale_items[i].product = p /\ sale_items[i].quantity = q
        /\ sale_items[i].sale = sale}

\* Every stored line like r still has the entry its creation appended.
EntryPerLine(r) ==
    Cardinality(SaleEntries(r.product, r.quantity, r.sale))
        = Cardinality(SaleLines(r.product, r.quantity, r.sale))

\* The ledger without its k-th entry.
LedgerWithout(k) ==
    SubSeq(ledger, 1, k - 1) \o SubSeq(ledger, k + 1, Len(ledger))

\* C32: the deletion of a sale line removes exactly one 'sale' entry, the
\* one the creation of that line appended, and leaves every other entry as
\* it is, the entry of another line of the same sale with the same product
\* and the same quantity included.
C32_OneSaleEntryRemoved ==
    [][ (/\ last'.op = "delete_sale_item" /\ last'.outcome = "deleted"
         /\ EntryPerLine(DeletedLine))
        => \E k \in SaleEntries(DeletedLine.product, DeletedLine.quantity,
                                 DeletedLine.sale) :
               SubSeq(ledger', 1, Len(ledger') - 1) = LedgerWithout(k) ]_vars

\* One of two lines of the same sale with the same product and the same
\* positive quantity has been deleted: the other is still stored and the
\* ledger holds no 'sale' entry for it.
C32_OtherEntryRemoved ==
    /\ last.op = "delete_sale_item" /\ last.outcome = "deleted"
    /\ last.quantity > 0
    /\ \E i \in 1..Len(sale_items) :
           /\ sale_items[i].product = last.product
           /\ sale_items[i].quantity = last.quantity
           /\ \A k \in 1..Len(ledger) :
                  ledger[k].product = last.product
                      => ledger[k].transaction_type # "sale"

----------------------------------------------------------------------------
(* C33 *)

\* C33 as stated: a new sale line submitted with a unit_cost > 0 is stored
\* with exactly that unit_cost; one submitted without, or with a unit_cost
\* <= 0, is stored with the cost calculate_fifo_cost computes.
C33_PresetCostKept ==
    [][ SaleCreated
        => NewLine.unit_cost =
               IF last'.unit_cost > 0 THEN last'.unit_cost
               ELSE CalculateFifoCost(DB, last'.product, last'.quantity, 0) ]_vars

\* C33 (amended): a sale line created by POST /sale-items/ is stored with
\* the cost calculate_fifo_cost computes whatever unit_cost the request
\* carries, the field being read-only in the serializer; calculate_fifo_cost
\* itself keeps a unit_cost > 0 that the instance it is given already has
\* (an instance saved by other means than the API).
C33_SubmittedCostIgnored ==
    [][ SaleCreated
        => /\ NewLine.unit_cost
                  = CalculateFifoCost(DB, last'.product, last'.quantity, 0)
           /\ \A uc \in SubmittedCosts : uc > 0 =>
                  CalculateFifoCost(DB, last'.product, last'.quantity, uc) = uc ]_vars

\* A line submitted with a unit_cost > 0 and a positive quantity has been
\* created and is stored with another unit_cost.
C33_Witness ==
    /\ last.op = "create_sale_item" /\ last.outcome = "created"
    /\ last.unit_cost > 0 /\ last.quantity > 0
    /\ \E i \in 1..Len(sale_items) :
           /\ sale_items[i].id = last.id
           /\ sale_items[i].unit_cost > 0
           /\ sale_items[i].unit_cost # last.unit_cost

----------------------------------------------------------------------------
(* Layers created within one reading of the clock.  created_at is the wall  *)
(* clock at the INSERT (auto_now_add); nothing makes two readings differ,   *)
(* and order_by('created_at') names no second key, so the database returns  *)
(* rows of equal created_at in an order of its choosing, query by query.    *)

\* receive whose layers are all inserted within one reading of the clock.
ReceiveSameInstant(d, pu, its) ==
    LET r == Receive(d, pu, its)
    IN  [r EXCEPT !.db.cost_layers =
            [i \in 1..Len(@) |->
                IF @[i].id >= d.next_id.layer
                THEN [@[i] EXCEPT !.created_at = d.next_id.layer]
                ELSE @[i]]]

\* CostLayer.objects.filter(product=product, quantity_remaining__gt=0)
\*     .order_by('created_at'): every order the query may return.
FifoOrders(ls, p) ==
    LET sel == SelectSeq(ls, LAMBDA l : l.product = p /\ l.quantity_remaining > 0)
        n == Len(sel)
        perms == {f \in [1..n -> 1..n] : \A i, j \in 1..n : i # j => f[i] # f[j]}
    IN  {[i \in 1..n |-> sel[f[i]]] : f \in
            {g \in perms : \A i, j \in 1..n :
                i < j => sel[g[i]].created_at <= sel[g[j]].created_at}}

\* calculate_fifo_cost when its query returns the layers in this order.
CalculateFifoCostOver(d, p, quantity_needed, unit_cost, layers) ==
    IF unit_cost > 0 THEN unit_cost
    ELSE IF layers = <<>>
         THEN RoundDiv(AverageCostGtq(d, p), RateScale)
         ELSE LET r == FifoCostLoop(layers, quantity_needed, 0)
              IN  RoundDiv(r.total_cost * RateScale
                               + FallbackCost(d, p, r.remaining_quantity),
                           quantity_needed * RateScale)

\* The loop of update_inventory_and_cost_layers when its query returns the
\* layers in this order.
ConsumeLayersOver(ls, layers, quantity_sold) ==
    LET plan == ConsumePlan(layers, quantity_sold)
        taken(id) ==
            IF \E k \in 1..Len(plan) : plan[k].id = id
            THEN plan[CHOOSE k \in 1..Len(plan) : plan[k].id = id].quantity
            ELSE 0
    IN  [i \in 1..Len(ls) |->
            [ls[i] EXCEPT !.quantity_remaining = @ - taken(ls[i].id)]]

\* POST /sale-items/ when the query of calculate_fifo_cost returns costed
\* and the query of update_inventory_and_cost_layers returns consumed; the
\* checks, the stock and the ledger do not depend on the order.
CreateSaleItemOver(d, p, quantity, unit_cost, costed, consumed) ==
    LET r == CreateSaleItem(d, p, quantity, unit_cost)
    IN  IF r.outcome # "created" THEN r
        ELSE [r EXCEPT
                 !.db.cost_layers = ConsumeLayersOver(d.cost_layers, consumed, quantity),
                 !.db.sale_items[Len(r.db.sale_items)].unit_cost =
                     CalculateFifoCostOver(d, p, quantity, unit_cost, costed)]

DoReceiveSameInstant ==
    \E pu \in PurchaseIds : \E its \in ItemOrders(pu) :
        /\ Exists(pu)
        /\ LET r == ReceiveSameInstant(DB, pu, its)
           IN  /\ Store(r.db)
               /\ Served(Request("receive", pu, 0, 0, 0, r.outcome))

DoCreateSaleItemOver ==
    \E p \in Products : \E q \in SaleQuantities :
        \E costed, consumed \in FifoOrders(cost_layers, p) :
            LET r == CreateSaleItemOver(DB, p, q, ValidatedUnitCost(0),
                                        costed, consumed)
            IN  /\ Store(r.db)
                /\ Served([Request("create_sale_item", 0, p, q, next_id.sale_item,
                                   r.outcome) EXCEPT !.detail = r.detail])

TieNext ==
    \/ DoReceiveSameInstant
    \/ DoCreateSaleItemOver
    \/ DoDeleteSaleItem
    \/ DoDeletePurchase

TieSpec == Init /\ [][TieNext]_vars

----------------------------------------------------------------------------
(* C34 *)

\* C34: FIFO consumption is deterministic.  From one state of a product the
\* same sale quantity gives the same answer, the same line cost and the same
\* layers decremented by the same amounts, whichever order the two queries
\* return layers of equal created_at in.
C34_FifoDeterministic ==
    \A p \in Products : \A q \in SaleQuantities :
        \A c1, t1, c2, t2 \in FifoOrders(cost_layers, p) :
            CreateSaleItemOver(DB, p, q, 0, c1, t1)
                = CreateSaleItemOver(DB, p, q, 0, c2, t2)

\* A sale has been costed on one layer and taken from another layer of the
\* same created_at and another unit cost.
C34_CostedAndTakenApart ==
    /\ last.op = "create_sale_item" /\ last.outcome = "created"
    /\ \E l, m \in Layers :
           /\ l.id # m.id /\ l.product = last.product /\ m.product = last.product
           /\ l.created_at = m.created_at
           /\ l.unit_cost_gtq # m.unit_cost_gtq
           /\ l.quantity_remaining = l.original_quantity - last.quantity
           /\ m.quantity_remaining = m.original_quantity
           /\ \E i \in 1..Len(sale_items) :
                  /\ sale_items[i].id = last.id
                  /\ sale_items[i].unit_cost = m.unit_cost_gtq

----------------------------------------------------------------------------
(* C35 *)

\* The positions of the entries of product p in a ledger.
EntriesOf(led, p) == {k \in 1..Len(led) : led[k].product = p}

\* The entry of product p appended last.
LastEntryOf(led, p) ==
    led[CHOOSE k \in EntriesOf(led, p) : \A j \in EntriesOf(led, p) : j <= k]

\* C35: after every request that changes the current_stock of a product
\* (receipt, sale, deletion of a sale line, deletion of a purchase), the
\* ledger entry appended last for that product has quantity_after equal to
\* the product's current_stock.
C35_LastEntryIsStock ==
    [][ \A p \in Products :
          product'[p].current_stock # product[p].current_stock
          => /\ EntriesOf(ledger', p) # {}
             /\ LastEntryOf(ledger', p).quantity_after
                    = product'[p].current_stock ]_vars

\* A received purchase with two lines of one product has been deleted after
\* a sale of that product: the stock has changed and the adjustment entry
\* appended last carries it.
C35_Witness ==
    /\ last.op = "delete_purchase" /\ last.outcome = "received"
    /\ \E p \in Products :
           /\ product[p].current_stock # last.before[p]
           /\ \E i, j \in 1..Len(purchase_items[last.purchase]) :
                  /\ i # j
                  /\ purchase_items[last.purchase][i].product = p
                  /\ purchase_items[last.purchase][j].product = p
           /\ \E k \in EntriesOf(ledger, p) : ledger[k].transaction_type = "sale"
           /\ LastEntryOf(ledger, p).transaction_type = "adjustment"
           /\ LastEntryOf(ledger, p).quantity_after = product[p].current_stock

----------------------------------------------------------------------------
(* C36 *)

\* The sum of quantity_change over the entries of product p in a ledger.
LedgerSum(led, p) ==
    SumTo([k \in 1..Len(led) |->
              IF led[k].product = p THEN led[k].quantity_change ELSE 0],
          Len(led))

\* The requests the claim is about.
StockRequests ==
    {"receive", "create_sale_item", "delete_sale_item", "delete_purchase"}

\* C36: for a product that starts with current_stock 0 and no ledger entry,
\* the sum of quantity_change over its ledger entries equals its
\* current_stock after any sequence of receipts, sales, deletions of sale
\* lines and deletions of purchases; that is, each such request keeps the
\* two equal.
C36_LedgerSumIsStock ==
    [][ \A p \in Products :
          (/\ last'.op \in StockRequests
           /\ LedgerSum(ledger, p) = product[p].current_stock)
          => LedgerSum(ledger', p) = product'[p].current_stock ]_vars

\* Three requests have been served, a receipt, a sale and the deletion of
\* the sale's line, on a product that started with no stock and no entry:
\* the ledger holds the receipt's entries and the adjustment, the 'sale'
\* entry is gone, and the sum exceeds the stock by the quantity of the line.
C36_SaleDeletionCountedTwice ==
    /\ nops = 3
    /\ last.op = "delete_sale_item" /\ last.outcome = "deleted"
    /\ last.quantity > 0
    /\ \E k \in EntriesOf(ledger, last.product) :
           ledger[k].transaction_type = "purchase"
    /\ \A o \in InitialData :
           o.purchase_items = purchase_items
               => o.product[last.product].current_stock = 0
    /\ LedgerSum(ledger, last.product)
           = product[last.product].current_stock + last.quantity

\* Two requests have been served, the receipt of a purchase and its
\* deletion: the stock of the product of a line is 0 again and its only
\* entry is the adjustment, so that the sum is minus the line's quantity.
C36_PurchaseDeletionCountedTwice ==
    /\ nops = 2
    /\ last.op = "delete_purchase" /\ last.outcome = "received"
    /\ \E p \in Products :
           /\ cost_layers = <<>>
           /\ product[p].current_stock = 0
           /\ LinesQuantity(last.purchase, p) > 0
           /\ LedgerSum(ledger, p) = -LinesQuantity(last.purchase, p)

----------------------------------------------------------------------------
(* C37 *)

\* The sum of quantity_remaining over the layers of product p in a table.
LayersSum(ls, p) ==
    SumTo([k \in 1..Len(ls) |->
              IF ls[k].product = p THEN ls[k].quantity_remaining ELSE 0],
          Len(ls))

\* C37: for a product that starts with current_stock 0 and no layer, the
\* current_stock equals the sum of quantity_remaining over its layers after
\* any sequence of receipts, sales, deletions of sale lines and deletions of
\* purchases; that is, each such request keeps the two equal.
C37_StockIsLayersSum ==
    [][ \A p \in Products :
          (/\ last'.op \in StockRequests
           /\ product[p].current_stock = LayersSum(cost_layers, p))
          => product'[p].current_stock = LayersSum(cost_layers', p) ]_vars

\* A line of a product costed at 0 has been sold from a layer and deleted:
\* the stock is restored and no layer is, so the stock exceeds what the
\* layers hold by the quantity of the line.
C37_RestoredWithoutLayer ==
    /\ nops = 3
    /\ last.op = "delete_sale_item" /\ last.outcome = "deleted"
    /\ last.quantity > 0
    /\ \A o \in InitialData :
           o.purchase_items = purchase_items
               => o.product[last.product].current_stock = 0
    /\ \E l \in Layers : l.product = last.product /\ l.purchase_item # None
    /\ product[last.product].current_stock
           = LayersSum(cost_layers, last.product) + last.quantity

\* A purchase with two lines of one product that had no stock has been
\* received and deleted: its layers are gone and stock is left.
C37_StockWithoutLayers ==
    /\ nops = 2
    /\ last.op = "delete_purchase" /\ last.outcome = "received"
    /\ cost_layers = <<>>
    /\ \E p \in Products :
           /\ LinesQuantity(last.purchase, p) > 0
           /\ product[p].current_stock > 0

----------------------------------------------------------------------------
(* C38 *)

\* The 'sale' entries of product p, by their positions.
SaleEntriesOf(p) ==
    {k \in EntriesOf(ledger, p) : ledger[k].transaction_type = "sale"}

\* The step deletes the sale line the request before it was about.
DeletesLineOf(op) ==
    /\ last.op = op /\ last'.op = "delete_sale_item"
    /\ last'.outcome = "deleted" /\ last'.id = last.id

\* C38: the deletion of a sale line gives the stock back exactly what the
\* creation of the line took.  Deleted right after its creation, the stock
\* is what it was before the sale; deleted right after an edit of its
\* quantity, the stock rises by the quantity the creation took (the
\* quantity of the one 'sale' entry, the line being the only one stored).
C38_DeletionRestoresSoldQuantity ==
    [][ /\ (DeletesLineOf("create_sale_item") /\ last.outcome = "created")
           => product'[last.product].current_stock = last.before[last.product]
        /\ (/\ DeletesLineOf("update_sale_item") /\ last.outcome = "updated"
            /\ Len(sale_items) = 1
            /\ Cardinality(SaleEntriesOf(last.product)) = 1)
           => \A k \in SaleEntriesOf(last.product) :
                  product'[last.product].current_stock
                      = product[last.product].current_stock
                          - ledger[k].quantity_change ]_vars

\* A line sold with a positive quantity out of received stock was edited to
\* a larger quantity and deleted: the stock is above what the product had
\* before the sale.
C38_StockAboveReceived ==
    /\ last.op = "delete_sale_item" /\ last.outcome = "deleted"
    /\ sale_items = <<>>
    /\ \E k \in EntriesOf(ledger, last.product) :
           /\ ledger[k].transaction_type = "purchase"
           /\ \A j \in EntriesOf(ledger, last.product) : k <= j
    /\ nops = 4 /\ last.quantity > 0
    /\ Cardinality(SaleEntriesOf(last.product)) = 1
    /\ \A j \in SaleEntriesOf(last.product) :
           /\ ledger[j].quantity_change < 0
           /\ product[last.product].current_stock
                  > ledger[j].quantity_after - ledger[j].quantity_change

====
